---- MODULE Spec2Model ----
(***************************************************************************)
(* A model of the phytospatial raster engine: the resource analyzer        *)
(* (raster/resources.py), the dispatch engine (raster/engine.py), the      *)
(* core+halo drivers of the treetop detector and the crown delineator      *)
(* (lidar/detect_treetop.py, lidar/delineate_crown.py) and the feature     *)
(* extractor (extract.py).                                                 *)
(*                                                                         *)
(* Each subsystem has its own variables and its own specification; a       *)
(* specification keeps the variables of the other subsystems idle.         *)
(***************************************************************************)
EXTENDS Integers, Sequences, FiniteSets, TLC

VARIABLES
    \* ---- resource analyzer (determine_strategy) ----
    src,            \* the raster header rasterio.open returns (readable = FALSE: it raises)
    mem_available,  \* psutil.virtual_memory().available, in model bytes
    user_mode,      \* the user_mode argument
    report,         \* the StrategyReport returned, NoReport before the call
    \* ---- dispatch engine (dispatch) ----
    input_map,      \* the named raster inputs, in dict order; the first is the primary
    config,         \* the DispatchConfig
    d_pc,           \* "ready", "streaming", "returned" or "raised"
    mode,           \* the ProcessingMode dispatch settled on ("none" before)
    iter_pos,       \* per input, how many windows its iterator has yielded
    calls,          \* the invocations of the block function, in order
    agg,            \* what the aggregator has received, in order
    out_file,       \* the output file of STITCH: created?, and the windows written
    result,         \* what dispatch returned
    error,          \* the exception dispatch raised ("none" when none)
    \* ---- core+halo drivers (detect_treetops, delineate_crowns) ----
    chm,            \* the canopy height model: its header and its pixels
    h_cfg,          \* tile_mode, tile_size, overlap and the kernel's method
    treetops,       \* the treetop table given to delineate_crowns
    h_tiles,        \* the tiles iter_core_halo yields over the run, in order
    h_idx,          \* how many tiles of iter_core_halo the driver has processed
    h_out,          \* the records the generator has yielded, in order
    h_pc,           \* "detect", "delineate", or the exception raised
    \* ---- feature extractor (extract_features) ----
    e_src,          \* raster_input: a Raster object or a file, with its pixels
    e_rows,         \* the rows of the vector table: crown_id, species, geometry
    e_cfg,          \* tile_mode, tile_size, return_raw and threshold
    e_tiles,        \* the raster iterator: the (window, tile_raster) it yields
    e_idx,          \* how many tiles the generator has processed
    e_tail,         \* how many crowns of the boundary buffer the tail has visited
    fully_processed_ids,
    crown_metadata,
    boundary_buffer,
    e_out,          \* the records the generator has yielded, in order
    e_pc,           \* "open", "stream", "tail", "done", or the exception raised
    e_handle,       \* the dataset of rasterio.open(path): "closed" or "open"
    \* ---- block kernels and envelope operations, called on their own ----
    k_args,         \* the arguments of the call
    k_ret,          \* what the call returned
    k_pc,           \* "idle", the name of the function to call, or "returned"
    k_calls         \* how many envelope operations were applied

stratVars == <<src, mem_available, user_mode, report>>
dispVars == <<input_map, config, d_pc, mode, iter_pos, calls, agg, out_file, result, error>>

haloVars == <<chm, h_cfg, treetops, h_tiles, h_idx, h_out, h_pc>>

extVars == <<e_src, e_rows, e_cfg, e_tiles, e_idx, e_tail, fully_processed_ids,
             crown_metadata, boundary_buffer, e_out, e_pc, e_handle>>

kernVars == <<k_args, k_ret, k_pc, k_calls>>

vars == <<stratVars, dispVars, haloVars, extVars, kernVars>>

-----------------------------------------------------------------------------
(* Bounds of the model.                                                    *)

MaxW == 3             \* widest raster, in pixels
MaxH == 2             \* tallest raster, in pixels
BytesPerGiB == 4      \* model bytes in one GiB (the code's 1024**3)
MaxTile == 2          \* largest tile_size, in pixels
MaxCols == 4          \* widest raster of the extractor, in pixels
MaxRows == 3          \* tallest raster of the extractor, in pixels

Max(a, b) == IF a >= b THEN a ELSE b
Min(a, b) == IF a <= b THEN a ELSE b

RECURSIVE SumSeq(_)
SumSeq(s) == IF s = <<>> THEN 0 ELSE Head(s) + SumSeq(Tail(s))

-----------------------------------------------------------------------------
(* raster/resources.py                                                     *)

DEFAULT_SAFETY_FACTOR == 3
MIN_FREE_GB == 2

ProcessingMode == {"in_memory", "blocked", "tiled"}

\* a recommendation that ignores the block structure
_recommend_blocked_always(struct) == TRUE

\* BlockStructure._recommend_blocked
_recommend_blocked(struct) == struct.is_tiled /\ ~struct.is_striped

FailSafeStructure == [is_tiled |-> FALSE, is_striped |-> TRUE, block_shape |-> <<0, 0>>]

\* _analyze_structure(src): block_shapes is a sequence of <<block_h, block_w>>
_analyze_structure(s) ==
    IF s.block_shapes = <<>>
    THEN FailSafeStructure
    ELSE LET block_h == s.block_shapes[1][1]
             block_w == s.block_shapes[1][2]
             is_striped == (block_w = s.width) \/ (block_h = 1)
         IN  [is_tiled |-> ~is_striped, is_striped |-> is_striped,
              block_shape |-> <<block_h, block_w>>]

\* _estimate_memory_safety(src) with the default safety factor and min_free_gb
_estimate_memory_safety(s, available) ==
    LET bytes_per_pixel == SumSeq(s.itemsizes)
        raw_bytes       == s.width * s.height * bytes_per_pixel
        overhead_bytes  == raw_bytes * (DEFAULT_SAFETY_FACTOR - 1)
        total_required  == raw_bytes + overhead_bytes
        min_free_bytes  == MIN_FREE_GB * BytesPerGiB
    IN  [total_required_bytes |-> total_required,
         available_system_bytes |-> available,
         is_safe |-> (total_required + min_free_bytes <= available)]

ReadErrorEstimate == [total_required_bytes |-> 0, available_system_bytes |-> 0, is_safe |-> FALSE]

StrategyReport(m, why, estimate, struct) ==
    [mode |-> m, reason |-> why, memory_stats |-> estimate, structure_stats |-> struct]

NoReport == [mode |-> "none"]
InvalidMode == [mode |-> "ValueError"]

\* determine_strategy(raster_path, user_mode): s is the opened header;
\* s.readable = FALSE when rasterio.open or the analysis raises.
determine_strategy(s, um, available) ==
    LET estimate == IF ~s.readable THEN ReadErrorEstimate
                    ELSE _estimate_memory_safety(s, available)
        struct   == IF ~s.readable THEN FailSafeStructure
                    ELSE _analyze_structure(s)
    IN  IF um # "auto"
        THEN IF um \notin ProcessingMode
             THEN InvalidMode
             ELSE IF um = "blocked" /\ ~_recommend_blocked(struct)
                  THEN StrategyReport("tiled", "override_striped", estimate, struct)
                  ELSE StrategyReport(um, "user_forced", estimate, struct)
        ELSE IF estimate.is_safe
             THEN StrategyReport("in_memory", "safe_for_ram", estimate, struct)
             ELSE IF _recommend_blocked(struct)
                  THEN StrategyReport("blocked", "native_tiles", estimate, struct)
                  ELSE StrategyReport("tiled", "strips", estimate, struct)

-----------------------------------------------------------------------------
(* Inputs of the resource analyzer.                                        *)

UserModes == ProcessingMode \cup {"auto", "bogus"}

BlockShapes(w, h) == {<<>>} \cup {<<<<bh, bw>>>> : bh \in 1..h, bw \in 1..w}

Header(w, h, it, bs) ==
    [readable |-> TRUE, width |-> w, height |-> h, itemsizes |-> it, block_shapes |-> bs]

Unreadable ==
    [readable |-> FALSE, width |-> 0, height |-> 0, itemsizes |-> <<>>, block_shapes |-> <<>>]

Headers ==
    UNION {{Header(w, h, it, bs) : it \in {<<1>>, <<1, 2>>}, bs \in BlockShapes(w, h)} :
           w \in 1..MaxW, h \in 1..MaxH}

MaxAvailable == MIN_FREE_GB * BytesPerGiB + DEFAULT_SAFETY_FACTOR * MaxW * MaxH * 3

StratIdle ==
    /\ src = Unreadable
    /\ user_mode = "auto"
    /\ report = NoReport

StratInit ==
    /\ src \in Headers \cup {Unreadable}
    /\ mem_available \in 0..MaxAvailable
    /\ user_mode \in UserModes
    /\ report = NoReport

\* the call determine_strategy(raster_path, user_mode)
DetermineStrategy ==
    /\ report = NoReport
    /\ report' = determine_strategy(src, user_mode, mem_available)
    /\ UNCHANGED <<src, mem_available, user_mode>>

StratNext == DetermineStrategy /\ UNCHANGED <<dispVars, haloVars, extVars, kernVars>>

-----------------------------------------------------------------------------
(* Window iterators: Raster.iter_windows (raster_layer.py) and the          *)
(* iter_tiles / iter_blocks of the partition module.                        *)

Window(col_off, row_off, width, height) ==
    [col_off |-> col_off, row_off |-> row_off, width |-> width, height |-> height]

\* len(range(0, n, step))
RangeLen(n, step) == (n + step - 1) \div step

\* Raster.iter_windows(tile_width, tile_height, overlap): the windows, row-major
iter_windows(w, h, tile_width, tile_height, overlap) ==
    LET step_w == tile_width - overlap
        step_h == tile_height - overlap
        ncols  == RangeLen(w, step_w)
        nrows  == RangeLen(h, step_h)
    IN  [k \in 1..(nrows * ncols) |->
            LET row_off == ((k - 1) \div ncols) * step_h
                col_off == ((k - 1) % ncols) * step_w
            IN  Window(col_off, row_off,
                       Min(tile_width, w - col_off), Min(tile_height, h - row_off))]

\* iter_tiles(source, tile_size, overlap): the same grid over a file on disk
iter_tiles(hdr, tile_size, overlap) ==
    iter_windows(hdr.width, hdr.height, tile_size, tile_size, overlap)

\* iter_blocks(source): the native block windows of the file
iter_blocks(hdr) ==
    LET block_h == hdr.block_shapes[1][1]
        block_w == hdr.block_shapes[1][2]
    IN  iter_windows(hdr.width, hdr.height, block_w, block_h, 0)

-----------------------------------------------------------------------------
(* raster/engine.py                                                        *)

AggregationType == {"stitch", "collect", "reduce", "none"}

IsRaster(source) == source.kind = "raster"

\* _create_iterator(source, mode, config)
_create_iterator(source, m, cfg) ==
    IF IsRaster(source)
    THEN iter_windows(source.hdr.width, source.hdr.height,
                      cfg.tile_size, cfg.tile_size, cfg.overlap)
    ELSE IF m = "blocked"
         THEN iter_blocks(source.hdr)
         ELSE iter_tiles(source.hdr, cfg.tile_size, cfg.overlap)

\* the tile an iterator yields with a window: the pixels of `name` at `window`
Tile(name, window) == [source |-> name, window |-> window]

\* load(source) / the Raster itself: the whole raster
WholeTile(source) ==
    Tile(source.name, Window(0, 0, source.hdr.width, source.hdr.height))

\* the block function: its output is determined by the tiles it was given
BlockFunction(tiles) == [computed_from |-> tiles]

N == Len(input_map)
Iter(i) == _create_iterator(input_map[i], mode, config)
Exhausted(i) == iter_pos[i] >= Len(Iter(i))
NextWindowOf(i) == Iter(i)[iter_pos[i] + 1]

\* a lock-step check that accepts every window
out_of_sync_unchecked(other_window, window) == FALSE

\* _synchronize_inputs, line 131: other_window != window
out_of_sync(other_window, window) == other_window # window

\* a collector that puts the newest output first
collect_reversed(acc, res) == <<res>> \o acc

\* dispatch, line 232: the list comprehension takes the outputs in stream order
collect(acc, res) == Append(acc, res)

\* _synchronize_inputs: the input fails the lock-step for `window`
FailsSync(i, window) == Exhausted(i) \/ out_of_sync(NextWindowOf(i), window)

\* the first non-primary input, in dict order, that fails (0: none does)
FirstFailing(window) ==
    IF \E i \in 2..N : FailsSync(i, window)
    THEN CHOOSE i \in 2..N : FailsSync(i, window) /\ \A j \in 2..(i - 1) : ~FailsSync(j, window)
    ELSE 0

\* dispatch, lines 201-212: the mode
PrimaryReport ==
    IF IsRaster(input_map[1])
    THEN [mode |-> "in_memory"]
    ELSE determine_strategy(input_map[1].hdr, config.mode, mem_available)

\* dispatch, lines 214-218: IN_MEMORY loads every input and calls func once;
\* an exception of func propagates
DispatchInMemory ==
    /\ d_pc = "ready"
    /\ PrimaryReport.mode = "in_memory"
    /\ mode' = "in_memory"
    /\ report' = PrimaryReport
    /\ LET loaded_inputs == [i \in 1..N |-> WholeTile(input_map[i])]
       IN  /\ calls' = <<[streamed |-> FALSE, window |-> Window(0, 0, 0, 0),
                          tiles |-> loaded_inputs]>>
           /\ \E raises \in BOOLEAN :
                IF raises
                THEN /\ d_pc' = "raised"
                     /\ error' = "kernel_failure"
                     /\ UNCHANGED result
                ELSE /\ d_pc' = "returned"
                     /\ result' = [kind |-> "value", value |-> BlockFunction(loaded_inputs)]
                     /\ UNCHANGED error
    /\ UNCHANGED <<src, mem_available, user_mode>>
    /\ UNCHANGED <<haloVars, extVars, kernVars>>
    /\ UNCHANGED <<input_map, config, iter_pos, agg, out_file>>

\* dispatch, lines 220-222, 234: the streaming branch rejects the configuration
DispatchRejected ==
    /\ d_pc = "ready"
    /\ PrimaryReport.mode \in {"blocked", "tiled"}
    /\ \/ config.aggregation = "stitch" /\ config.output_path = ""
          /\ error' = "stitch_requires_output_path"
       \/ config.aggregation = "reduce" /\ ~config.reducer
          /\ error' = "reduce_requires_reducer"
    /\ mode' = PrimaryReport.mode
    /\ report' = PrimaryReport
    /\ d_pc' = "raised"
    /\ UNCHANGED <<src, mem_available, user_mode>>
    /\ UNCHANGED <<haloVars, extVars, kernVars>>
    /\ UNCHANGED <<input_map, config, iter_pos, calls, agg, out_file, result>>

\* dispatch, lines 224-240: the streaming branch starts; _aggregate_stitch opens
\* the TileStitcher (creating the output file) before the first window
DispatchStream ==
    /\ d_pc = "ready"
    /\ PrimaryReport.mode \in {"blocked", "tiled"}
    /\ ~(config.aggregation = "stitch" /\ config.output_path = "")
    /\ ~(config.aggregation = "reduce" /\ ~config.reducer)
    /\ mode' = PrimaryReport.mode
    /\ report' = PrimaryReport
    /\ d_pc' = "streaming"
    /\ out_file' = [out_file EXCEPT !.created = (config.aggregation = "stitch")]
    /\ UNCHANGED <<src, mem_available, user_mode>>
    /\ UNCHANGED <<haloVars, extVars, kernVars>>
    /\ UNCHANGED <<input_map, config, iter_pos, calls, agg, result, error>>

\* the iterators after the primary yielded and the inputs up to `upto` were advanced
Advanced(upto) ==
    [i \in 1..N |-> IF i <= upto /\ ~Exhausted(i) THEN iter_pos[i] + 1 ELSE iter_pos[i]]

\* _synchronize_inputs, lines 122-141: a non-primary input is out of step
SyncMismatch ==
    /\ d_pc = "streaming"
    /\ ~Exhausted(1)
    /\ LET window == NextWindowOf(1)
           bad    == FirstFailing(window)
       IN  /\ bad # 0
           /\ iter_pos' = Advanced(bad)
           /\ error' = IF Exhausted(bad) THEN "ended_prematurely" ELSE "grid_mismatch"
    /\ d_pc' = "raised"
    /\ UNCHANGED stratVars
    /\ UNCHANGED <<haloVars, extVars, kernVars>>
    /\ UNCHANGED <<input_map, config, mode, calls, agg, out_file, result>>

\* _synchronize_inputs yields (window, tiles); execution_stream calls func, which raises
KernelFailure ==
    /\ d_pc = "streaming"
    /\ ~Exhausted(1)
    /\ LET window == NextWindowOf(1)
           tiles  == [i \in 1..N |-> Tile(input_map[i].name, NextWindowOf(i))]
       IN  /\ FirstFailing(window) = 0
           /\ calls' = Append(calls, [streamed |-> TRUE, window |-> window, tiles |-> tiles])
    /\ iter_pos' = Advanced(N)
    /\ d_pc' = "raised"
    /\ error' = "kernel_failure"
    /\ UNCHANGED stratVars
    /\ UNCHANGED <<haloVars, extVars, kernVars>>
    /\ UNCHANGED <<input_map, config, mode, agg, out_file, result>>

\* a stitcher that keeps the tiles to itself until the stream is over
add_tile_deferred(file, window, res) == file

\* _aggregate_stitch, line 170: stitcher.add_tile(window, result_tile) writes
\* the tile to the output file at its window
add_tile(file, window, res) ==
    [file EXCEPT !.writes = Append(@, [window |-> window, tile |-> res])]

\* one window: synchronized tiles, func, and the aggregator's step
\* (stitcher.add_tile, the list append, the reducer, or nothing)
StreamStep ==
    /\ d_pc = "streaming"
    /\ ~Exhausted(1)
    /\ LET window == NextWindowOf(1)
           tiles  == [i \in 1..N |-> Tile(input_map[i].name, NextWindowOf(i))]
           res    == BlockFunction(tiles)
       IN  /\ FirstFailing(window) = 0
           /\ calls' = Append(calls, [streamed |-> TRUE, window |-> window, tiles |-> tiles])
           /\ IF config.aggregation = "stitch"
              THEN /\ out_file' = add_tile(out_file, window, res)
                   /\ UNCHANGED agg
              ELSE /\ agg' = CASE config.aggregation = "collect" -> collect(agg, res)
                               [] config.aggregation = "reduce"  -> Append(agg, res)
                               [] OTHER -> agg
                   /\ UNCHANGED out_file
    /\ iter_pos' = Advanced(N)
    /\ UNCHANGED stratVars
    /\ UNCHANGED <<haloVars, extVars, kernVars>>
    /\ UNCHANGED <<input_map, config, d_pc, mode, result, error>>

\* the primary iterator is exhausted: the aggregator returns
StreamEnd ==
    /\ d_pc = "streaming"
    /\ Exhausted(1)
    /\ d_pc' = "returned"
    /\ result' = CASE config.aggregation = "stitch"  -> [kind |-> "path", value |-> config.output_path]
                   [] config.aggregation = "collect" -> [kind |-> "list", value |-> agg]
                   [] config.aggregation = "reduce"  ->
                        IF agg = <<>> THEN [kind |-> "none", value |-> <<>>]
                        ELSE [kind |-> "value", value |-> agg]
                   [] OTHER -> [kind |-> "none", value |-> <<>>]
    /\ UNCHANGED stratVars
    /\ UNCHANGED <<haloVars, extVars, kernVars>>
    /\ UNCHANGED <<input_map, config, mode, iter_pos, calls, agg, out_file, error>>

-----------------------------------------------------------------------------
(* Inputs of dispatch.                                                     *)

\* native block shapes: full-width strips, single rows, and column blocks
NativeBlocks(w, h) == {<<<<bh, bw>>>> : bh \in {1, h}, bw \in {1, w}}

Sources(name) ==
    UNION {{[name |-> name, kind |-> "raster", hdr |-> Header(w, h, <<1>>, <<<<h, w>>>>)]}
           \cup {[name |-> name, kind |-> "path", hdr |-> Header(w, h, <<1>>, bs)] :
                    bs \in NativeBlocks(w, h)} :
           w \in 1..MaxW, h \in 1..MaxH}

InputMaps ==
    {<<a>> : a \in Sources("a")} \cup {<<a, b>> : a \in Sources("a"), b \in Sources("b")}

\* (aggregation, output_path, reducer given?)
Aggregations ==
    {<<"stitch", "out.tif", FALSE>>, <<"stitch", "", FALSE>>, <<"collect", "", FALSE>>,
     <<"reduce", "", TRUE>>, <<"reduce", "", FALSE>>, <<"none", "", FALSE>>}

Configs ==
    {[mode |-> m, tile_size |-> ts, overlap |-> ov,
      output_path |-> a[2], aggregation |-> a[1], reducer |-> a[3]] :
        m \in ProcessingMode \cup {"auto"}, ts \in 1..MaxTile, ov \in 0..(MaxTile - 1),
        a \in Aggregations}

\* free memory that holds a raster of one pixel and no larger one
MemForOnePixel == MIN_FREE_GB * BytesPerGiB + DEFAULT_SAFETY_FACTOR

\* free memory: too little for any raster, enough for the smallest only, and
\* enough for all of them
MemChoices == {0, MemForOnePixel, MaxAvailable}

DispIdle ==
    /\ input_map = <<>>
    /\ config = [mode |-> "auto"]
    /\ d_pc = "idle"
    /\ mode = "none"
    /\ iter_pos = <<>>
    /\ calls = <<>>
    /\ agg = <<>>
    /\ out_file = [created |-> FALSE, writes |-> <<>>]
    /\ result = [kind |-> "unset", value |-> <<>>]
    /\ error = "none"

DispInit ==
    /\ input_map \in InputMaps
    /\ config \in {c \in Configs : c.overlap < c.tile_size}
    /\ mem_available \in MemChoices
    /\ d_pc = "ready"
    /\ mode = "none"
    /\ iter_pos = [i \in 1..Len(input_map) |-> 0]
    /\ calls = <<>>
    /\ agg = <<>>
    /\ out_file = [created |-> FALSE, writes |-> <<>>]
    /\ result = [kind |-> "unset", value |-> <<>>]
    /\ error = "none"
    /\ src = Unreadable
    /\ user_mode = "auto"
    /\ report = NoReport

DispNext ==
    \/ DispatchInMemory
    \/ DispatchRejected
    \/ DispatchStream
    \/ SyncMismatch
    \/ KernelFailure
    \/ StreamStep
    \/ StreamEnd

-----------------------------------------------------------------------------
(* Claims about the dispatch engine.                                       *)

\* a non-primary input whose next window is missing or is not the primary's
Mismatch ==
    \E i \in 2..N : Exhausted(i) \/ NextWindowOf(i) # NextWindowOf(1)

\* C7: in streaming dispatch every tile handed to the block function was read at
\* the window of that call, under its own input name; and when a non-primary
\* input yields another window or has ended, the step raises the grid-mismatch
\* error without invoking the block function.
C7_LockStep ==
    /\ [](\A k \in 1..Len(calls) :
            calls[k].streamed =>
                \A i \in 1..N : /\ calls[k].tiles[i].window = calls[k].window
                                /\ calls[k].tiles[i].source = input_map[i].name)
    /\ [][(d_pc = "streaming" /\ ~Exhausted(1) /\ Mismatch)
            => (/\ d_pc' = "raised"
                /\ error' \in {"grid_mismatch", "ended_prematurely"}
                /\ calls' = calls)]_vars

\* C7 witness: a two-input stream that processed a window and then met a
\* differing window
C7_Witness ==
    /\ N = 2
    /\ d_pc = "raised"
    /\ error = "grid_mismatch"
    /\ Len(calls) >= 1

\* calculate_chm, lines 358-363: what it returns from dispatch's result
calculate_chm_return ==
    IF config.output_path # ""
    THEN [kind |-> "path", value |-> config.output_path]
    ELSE IF result.kind = "list" THEN [kind |-> "value", value |-> result.value[1]]
         ELSE result

\* every window the primary iterator yields has its result in the output file
AllWindowsWritten ==
    /\ out_file.created
    /\ Len(out_file.writes) = Len(Iter(1))
    /\ \A k \in 1..Len(out_file.writes) :
          /\ out_file.writes[k].window = Iter(1)[k]
          /\ out_file.writes[k].tile = BlockFunction(calls[k].tiles)

\* C8: with aggregation STITCH, dispatch fails unless an output path is
\* configured, and when it returns it returns that path after every window's
\* result was written to the output file, in every processing mode.
C8_StitchWritesFile ==
    (d_pc = "returned" /\ config.aggregation = "stitch")
        => /\ config.output_path # ""
           /\ result = [kind |-> "path", value |-> config.output_path]
           /\ calculate_chm_return.kind = "path" => out_file.created
           /\ mode \in {"blocked", "tiled"} => AllWindowsWritten

ProbeEstimate == _estimate_memory_safety(input_map[1].hdr, mem_available)

\* C11: when the primary input is a file whose memory estimate at probe time is
\* unsafe, a request that forces IN_MEMORY ends in an error and the block
\* function is never handed the whole raster; on the auto path the same
\* estimate is recovered by streaming (BLOCKED or TILED).
C11_UnsafeInMemoryRejected ==
    (d_pc # "ready" /\ ~IsRaster(input_map[1]) /\ ~ProbeEstimate.is_safe)
        => /\ config.mode = "in_memory" =>
                /\ d_pc = "raised"
                /\ error # "kernel_failure"
                /\ calls = <<>>
           /\ config.mode = "auto" => mode \in {"blocked", "tiled"}

\* the outputs of the windows before the failing call are in the output file
EarlierTilesWritten ==
    /\ out_file.created
    /\ Len(out_file.writes) = Len(calls) - 1
    /\ \A k \in 1..Len(out_file.writes) :
          /\ out_file.writes[k].window = Iter(1)[k]
          /\ out_file.writes[k].tile = BlockFunction(calls[k].tiles)

\* C20: when the block function raises on a window of a streaming dispatch, the
\* exception reaches the caller (dispatch has no result), the step that raises
\* leaves the aggregate and the output file as they were, no window is
\* processed afterwards, and with STITCH the tiles written for the earlier
\* windows are still in the output file.
C20_KernelFailureFatal ==
    /\ []((d_pc = "raised" /\ error = "kernel_failure" /\ mode # "in_memory")
            => /\ result.kind = "unset"
               /\ Len(calls) >= 1
               /\ calls[Len(calls)].window = Iter(1)[Len(calls)]
               /\ config.aggregation = "stitch" => EarlierTilesWritten)
    /\ [][(error' = "kernel_failure" /\ error = "none")
            => (out_file' = out_file /\ agg' = agg /\ result' = result)]_vars
    /\ [][d_pc # "raised"]_vars

\* C20 witness: a STITCH stream wrote two windows and the block function raised
\* on the third
C20_Witness ==
    /\ d_pc = "raised"
    /\ error = "kernel_failure"
    /\ config.aggregation = "stitch"
    /\ Len(out_file.writes) = 2
    /\ Len(calls) = 3
    /\ Len(Iter(1)) > 3

\* the input was read through iter_blocks: it is a file, the mode of the
\* dispatch is BLOCKED and its iterator was advanced
WalkedByBlocks(i) ==
    /\ d_pc \in {"streaming", "raised", "returned"}
    /\ mode = "blocked"
    /\ ~IsRaster(input_map[i])
    /\ iter_pos[i] > 0

\* C24: within one dispatch, iter_blocks is applied to an input only if that
\* input's own structure is natively tiled; a strip-oriented input is never
\* walked by native blocks, whatever its position in the input map.
C24_NativeBlocksOnlyOnTiled ==
    \A i \in 1..N :
        WalkedByBlocks(i) => _recommend_blocked(_analyze_structure(input_map[i].hdr))

\* what does hold: the primary input is walked by native blocks only if tiled
C24_PrimaryOnly ==
    (N >= 1 /\ WalkedByBlocks(1)) =>
        _recommend_blocked(_analyze_structure(input_map[1].hdr))

\* the input passes the memory-safety check
FitsMemory(i) ==
    IsRaster(input_map[i]) \/ _estimate_memory_safety(input_map[i].hdr, mem_available).is_safe

\* C25: dispatch takes the IN_MEMORY path, loading every input whole and
\* calling the block function once, only when every input of the map passes
\* the memory-safety check, not only the first one.
C25_InMemoryOnlyIfAllFit ==
    (d_pc \in {"raised", "returned"} /\ mode = "in_memory") =>
        \A i \in 1..N : FitsMemory(i)

\* what does hold: in auto mode the primary input fits
C25_PrimaryFits ==
    (d_pc \in {"raised", "returned"} /\ mode = "in_memory" /\ config.mode = "auto") =>
        FitsMemory(1)

\* the case of C25 in auto mode: a primary file that fits, another that does not
C25_AutoSecondUnchecked ==
    ~(/\ d_pc = "returned" /\ mode = "in_memory" /\ config.mode = "auto"
      /\ N = 2 /\ ~IsRaster(input_map[1]) /\ ~FitsMemory(2))

\* C27: a streaming dispatch completes only if all inputs yield exactly the
\* same window sequence; a non-primary input with more windows than the
\* primary makes dispatch report the mismatch, not finish with tiles unread.
C27_SameWindowSequence ==
    (d_pc = "returned" /\ mode \in {"blocked", "tiled"}) =>
        \A i \in 2..N : Iter(i) = Iter(1) /\ Exhausted(i)

\* what does hold: the windows of the primary open every other input's sequence
C27_PrimaryIsPrefix ==
    (d_pc = "returned" /\ mode \in {"blocked", "tiled"}) =>
        \A i \in 2..N : /\ Len(Iter(i)) >= Len(Iter(1))
                         /\ SubSeq(Iter(i), 1, Len(Iter(1))) = Iter(1)
                         /\ iter_pos[i] = Len(Iter(1))

-----------------------------------------------------------------------------
(* Claims about the resource analyzer.                                     *)

\* the raster is strip-oriented: full-width blocks or single-row blocks (or no
\* readable block structure at all)
StripOriented(s) ==
    \/ ~s.readable
    \/ s.block_shapes = <<>>
    \/ s.block_shapes[1][2] = s.width
    \/ s.block_shapes[1][1] = 1

\* required = width * height * sum(itemsize) * safety_factor; safe iff
\* required + min_free <= available
MemorySafe(s, available) ==
    /\ s.readable
    /\ s.width * s.height * SumSeq(s.itemsizes) * DEFAULT_SAFETY_FACTOR
         + MIN_FREE_GB * BytesPerGiB <= available

\* the mode the claim gives for (safe?, tiled?, user_mode)
SelectedMode(safe, tiled, um) ==
    IF um = "auto"
    THEN IF safe THEN "in_memory" ELSE IF tiled THEN "blocked" ELSE "tiled"
    ELSE IF um = "blocked" /\ ~tiled THEN "tiled" ELSE um

-----------------------------------------------------------------------------
(* World geometry.  World coordinates are in half pixels: a pixel is 2     *)
(* units wide, so pixel centres and pixel edges are both integers.  The    *)
(* raster's affine transform is north-up: x = x0 + 2 col, y = y0 - 2 row.  *)

RasterTransform == [x0 |-> 100, y0 |-> 200]

\* the transform of a window of a raster (rasterio's window_transform)
window_transform(window, t) ==
    [x0 |-> t.x0 + 2 * window.col_off, y0 |-> t.y0 - 2 * window.row_off]

\* the world box of a window: box(minx, miny, maxx, maxy)
WindowBox(window, t) ==
    [minx |-> t.x0 + 2 * window.col_off,
     maxx |-> t.x0 + 2 * (window.col_off + window.width),
     maxy |-> t.y0 - 2 * window.row_off,
     miny |-> t.y0 - 2 * (window.row_off + window.height)]

\* detect_treetops, lines 320-321: Point(transform * (c + 0.5, r + 0.5))
PixelCentre(t, r, c) == [x |-> t.x0 + 2 * c + 1, y |-> t.y0 - (2 * r + 1)]

\* shapely: box.contains(point), the point lies in the interior
contains(b, pt) == b.minx < pt.x /\ pt.x < b.maxx /\ b.miny < pt.y /\ pt.y < b.maxy

\* shapely: point.intersects(box), the boundary included
intersects(b, pt) == b.minx <= pt.x /\ pt.x <= b.maxx /\ b.miny <= pt.y /\ pt.y <= b.maxy

SetMax(S) == CHOOSE x \in S : \A y \in S : y <= x
SetMin(S) == CHOOSE x \in S : \A y \in S : x <= y

-----------------------------------------------------------------------------
(* iter_core_halo of the partition module.                                 *)

\* cores that keep the overlap: tiles of tile_size + overlap on a tile_size grid
CoreWindowsWithOverlap(hdr, m, tile_size, overlap) ==
    IF m = "blocked" THEN iter_blocks(hdr)
    ELSE iter_tiles(hdr, tile_size + overlap, overlap)

\* the core windows: the native blocks, or the fixed grid without overlap
CoreWindows(hdr, m, tile_size, overlap) ==
    IF m = "blocked" THEN iter_blocks(hdr) ELSE iter_tiles(hdr, tile_size, 0)

\* the read window: the core expanded by `overlap` pixels, clipped to the parent
ReadWindow(core, hdr, overlap) ==
    LET c0 == Max(0, core.col_off - overlap)
        r0 == Max(0, core.row_off - overlap)
        c1 == Min(hdr.width, core.col_off + core.width + overlap)
        r1 == Min(hdr.height, core.row_off + core.height + overlap)
    IN  Window(c0, r0, c1 - c0, r1 - r0)

\* iter_core_halo(source, mode, tile_size, overlap): the (array, transform,
\* core_box, read_box) it yields; has_boxes = FALSE stands for core_box = None
\* and read_box = None (the raster is processed whole)
iter_core_halo(hdr, m, tile_size, overlap) ==
    LET whole == Window(0, 0, hdr.width, hdr.height)
        cores == CoreWindows(hdr, m, tile_size, overlap)
    IN  IF m = "in_memory"
        THEN <<[window |-> whole, core |-> whole, transform |-> RasterTransform,
                has_boxes |-> FALSE,
                core_box |-> WindowBox(whole, RasterTransform),
                read_box |-> WindowBox(whole, RasterTransform)]>>
        ELSE [k \in 1..Len(cores) |->
                LET read == ReadWindow(cores[k], hdr, overlap)
                IN  [window |-> read, core |-> cores[k],
                     transform |-> window_transform(read, RasterTransform),
                     has_boxes |-> TRUE,
                     core_box |-> WindowBox(cores[k], RasterTransform),
                     read_box |-> WindowBox(read, RasterTransform)]]

-----------------------------------------------------------------------------
(* Arrays.  An array is [height, width, z] with z a function of <<r, c>>.  *)

Pixels(h, w) == (0..(h - 1)) \X (0..(w - 1))

\* the pixels in row-major order (np.where, ravel)
PixelsRowMajor(h, w) == [k \in 1..(h * w) |-> <<(k - 1) \div w, (k - 1) % w>>]

\* the pixel data of a window of the raster
WindowArray(raster, window) ==
    [height |-> window.height, width |-> window.width,
     z |-> [p \in Pixels(window.height, window.width) |->
              raster.z[<<p[1] + window.row_off, p[2] + window.col_off>>]]]

Abs(x) == IF x < 0 THEN -x ELSE x

\* the pixels of the array in the square window of radius `rad` around p; scipy's
\* default boundary mode 'reflect' repeats in-window pixels, so this is the window
Footprint(arr, p, rad) ==
    {q \in DOMAIN arr.z : Abs(q[1] - p[1]) <= rad /\ Abs(q[2] - p[2]) <= rad}

\* ndimage.maximum_filter(chm, size) / grey_dilation
maximum_filter(arr, size) ==
    [arr EXCEPT !.z = [p \in DOMAIN arr.z |->
                         SetMax({arr.z[q] : q \in Footprint(arr, p, size \div 2)})]]

\* ndimage.minimum_filter(chm, size) / grey_erosion
minimum_filter(arr, size) ==
    [arr EXCEPT !.z = [p \in DOMAIN arr.z |->
                         SetMin({arr.z[q] : q \in Footprint(arr, p, size \div 2)})]]

-----------------------------------------------------------------------------
(* lidar/detect_treetop.py                                                 *)

\* DetectionParams as the caller passes it: min_height keeps its default (3.0);
\* lmf_window_size is 3 (default 5), the odd window that fits the rasters here
DetectionParams(method) ==
    [detection_method |-> method, min_height |-> 3, lmf_window_size |-> 3]

\* _detect_peaks_lmf(chm, params): the peaks, in np.where order
_detect_peaks_lmf(arr, params) ==
    LET local_max == maximum_filter(arr, params.lmf_window_size)
        valid_peaks(p) == local_max.z[p] = arr.z[p] /\ arr.z[p] >= params.min_height
    IN  SelectSeq(PixelsRowMajor(arr.height, arr.width), valid_peaks)

\* a core filter that lets every peak through
InCoreUnfiltered(tile, geom) == TRUE

\* detect_treetops, line 323: core_box is None or core_box.contains(geom)
InCore(tile, geom) == ~tile.has_boxes \/ contains(tile.core_box, geom)

\* detect_treetops, lines 293-331: the records one tile yields; `tile_no` records
\* which tile of the run yielded the record
TreetopsOfTile(raster, tile, tile_no, params) ==
    LET arr     == WindowArray(raster, tile.window)
        peaks   == _detect_peaks_lmf(arr, params)
        geom(p) == PixelCentre(tile.transform, p[1], p[2])
        kept(p) == InCore(tile, geom(p))
        apex    == SelectSeq(peaks, kept)
    IN  [i \in 1..Len(apex) |->
            [height |-> arr.z[apex[i]], det_method |-> params.detection_method,
             geometry |-> geom(apex[i]), tile_no |-> tile_no]]

-----------------------------------------------------------------------------
(* lidar/delineate_crown.py                                                *)

\* DelineationParams as the caller passes it: min_height keeps its default (3.0);
\* watershed_sigma is 0 (default 0.5), for which _run_watershed does not smooth
DelineationParams(method) ==
    [delineation_method |-> method, min_height |-> 3, watershed_sigma |-> 0]

N4(p) == {<<p[1] - 1, p[2]>>, <<p[1] + 1, p[2]>>, <<p[1], p[2] - 1>>, <<p[1], p[2] + 1>>}

\* _run_watershed, lines 80-82: later treetops overwrite earlier ones
Markers(arr, apex_ref) ==
    [p \in DOMAIN arr.z |->
        LET hits == {i \in 1..Len(apex_ref) : apex_ref[i] = p}
        IN  IF hits = {} THEN 0 ELSE SetMax(hits)]

\* the row-major rank of a pixel
Rank(arr, p) == p[1] * arr.width + p[2]

\* skimage.segmentation.watershed(-surface, markers, mask, watershed_line=True)
\* as a priority flood over 4-neighbours: markers outside the mask are dropped;
\* the highest pixel of the frontier is taken next (row-major among equals); a
\* pixel whose labelled neighbours carry two labels becomes a watershed line.
RECURSIVE Flood(_, _, _, _, _)
Flood(surface, mask, labels, lines, popped) ==
    LET open(q) == q \in DOMAIN surface.z /\ mask[q] /\ q \notin lines
        frontier == {p \in DOMAIN surface.z :
                        /\ open(p) /\ p \notin popped
                        /\ \/ labels[p] # 0
                           \/ \E q \in N4(p) : open(q) /\ q \in popped /\ labels[q] # 0}
    IN  IF frontier = {} THEN labels
        ELSE LET top  == SetMax({surface.z[p] : p \in frontier})
                 best == {p \in frontier : surface.z[p] = top}
                 p    == CHOOSE x \in best : \A y \in best : Rank(surface, x) <= Rank(surface, y)
                 near == {labels[q] : q \in {n \in N4(p) : open(n)}} \ {0}
                 line == Cardinality(near) >= 2
                 next == [labels |-> IF line \/ labels[p] # 0 THEN labels
                                     ELSE [labels EXCEPT ![p] = CHOOSE l \in near : TRUE],
                          lines  |-> IF line THEN lines \cup {p} ELSE lines,
                          popped |-> popped \cup {p}]
             IN  CHOOSE r \in {Flood(surface, mask, n.labels, n.lines, n.popped) : n \in {next}} :
                     TRUE

watershed(negated, markers, mask) ==
    LET start == [surface |-> [negated EXCEPT !.z = [p \in DOMAIN negated.z |-> -negated.z[p]]],
                  mask    |-> mask,
                  labels  |-> [p \in DOMAIN negated.z |-> IF mask[p] THEN markers[p] ELSE 0]]
    IN  CHOOSE r \in {Flood(s.surface, s.mask, s.labels, {}, {}) : s \in {start}} : TRUE

\* _run_watershed(chm, apex_ref, params): the label grid (watershed_sigma = 0)
_run_watershed(arr, apex_ref, params) ==
    LET chm_closed == minimum_filter(maximum_filter(arr, 3), 3)
        markers    == Markers(arr, apex_ref)
        mask       == [p \in DOMAIN arr.z |-> chm_closed.z[p] >= params.min_height]
        negated    == [chm_closed EXCEPT !.z = [p \in DOMAIN arr.z |-> -chm_closed.z[p]]]
    IN  watershed(negated, markers, mask)

\* a core filter that lets every crown through
ApexInCoreUnfiltered(tile, apex_geom) == TRUE

\* delineate_crowns, line 390: core_box is None or core_box.contains(apex_geom)
ApexInCore(tile, apex_geom) == ~tile.has_boxes \/ contains(tile.core_box, apex_geom)

\* delineate_crowns, lines 348-353: the treetops of the tile's read box
LocalTrees(tt, tile) ==
    LET in_read(t) == intersects(tile.read_box, t.geometry)
    IN  IF tile.has_boxes THEN SelectSeq(tt, in_read) ELSE tt

\* delineate_crowns, lines 359-364: (~transform) * (x, y) falls inside the array
ValidTree(t, tile) ==
    LET col2 == t.geometry.x - tile.transform.x0     \* twice the column
        row2 == tile.transform.y0 - t.geometry.y     \* twice the row
    IN  row2 >= 0 /\ row2 < 2 * tile.window.height /\ col2 >= 0 /\ col2 < 2 * tile.window.width

\* delineate_crowns, lines 368-370: astype(int) of the row and the column
ApexPixel(t, tile) ==
    <<(tile.transform.y0 - t.geometry.y) \div 2, (t.geometry.x - tile.transform.x0) \div 2>>

\* delineate_crowns, lines 355-374: the valid treetops of the tile, in table order
ValidTrees(tt, tile) ==
    LET valid(t) == ValidTree(t, tile)
    IN  SelectSeq(LocalTrees(tt, tile), valid)

\* rasterio.features.shapes(final_labels, mask=final_labels > 0): one polygon per
\* 4-connected region; the flood keeps every label 4-connected, so one per
\* label, in the row-major order of first pixels
LabelRegions(arr, final_labels) ==
    LET first(p) == /\ final_labels[p] > 0
                    /\ \A q \in DOMAIN arr.z :
                          final_labels[q] = final_labels[p] => Rank(arr, p) <= Rank(arr, q)
        firsts == SelectSeq(PixelsRowMajor(arr.height, arr.width), first)
    IN  [i \in 1..Len(firsts) |-> final_labels[firsts[i]]]

\* delineate_crowns, lines 376-403: the records one tile yields with the
\* watershed kernel
CrownsOfTile(raster, tt, tile, tile_no, params) ==
    LET arr     == WindowArray(raster, tile.window)
        trees   == ValidTrees(tt, tile)
        apex_p  == [i \in 1..Len(trees) |-> ApexPixel(trees[i], tile)]
        kept(value) == ApexInCore(tile, trees[value].geometry)
        records(final_labels) ==
            LET emitted_vals == SelectSeq(LabelRegions(arr, final_labels), kept)
            IN  [i \in 1..Len(emitted_vals) |->
                    LET value  == emitted_vals[i]
                        region == {p \in DOMAIN arr.z : final_labels[p] = value}
                    IN  [tree_id |-> trees[value].tree_id,
                         height |-> SetMax({arr.z[p] : p \in region}),
                         del_method |-> params.delineation_method,
                         geometry |-> {<<p[1] + tile.window.row_off,
                                         p[2] + tile.window.col_off>> : p \in region},
                         tile_no |-> tile_no]]
    IN  CHOOSE r \in {records(final_labels) :
                         final_labels \in {_run_watershed(arr, apex_p, params)}} : TRUE

-----------------------------------------------------------------------------
(* The core+halo drivers as state machines: one step per tile.             *)

\* the tiles of the run
HaloTiles == h_tiles

HaloExhausted == h_idx >= Len(HaloTiles)

\* detect_treetops, lines 293-331: one iteration of the loop over the tiles
DetectTile ==
    /\ h_pc = "detect"
    /\ ~HaloExhausted
    /\ h_out' = h_out \o TreetopsOfTile(chm, HaloTiles[h_idx + 1], h_idx + 1,
                                     DetectionParams(h_cfg.method))
    /\ h_idx' = h_idx + 1
    /\ UNCHANGED <<chm, h_cfg, treetops, h_tiles, h_pc>>
    /\ UNCHANGED <<stratVars, dispVars, extVars, kernVars>>

\* delineate_crowns, lines 344-403: one iteration of the loop over the tiles;
\* a tile without valid treetops is skipped (lines 355-356, 365-366)
DelineateTile ==
    /\ h_pc = "delineate"
    /\ treetops # <<>>
    /\ ~HaloExhausted
    /\ LET tile == HaloTiles[h_idx + 1]
       IN  /\ ValidTrees(treetops, tile) # <<>> => h_cfg.method = "watershed"
           /\ h_out' = IF ValidTrees(treetops, tile) = <<>> THEN h_out
                       ELSE h_out \o CrownsOfTile(chm, treetops, tile, h_idx + 1,
                                                  DelineationParams(h_cfg.method))
    /\ h_idx' = h_idx + 1
    /\ UNCHANGED <<chm, h_cfg, treetops, h_tiles, h_pc>>
    /\ UNCHANGED <<stratVars, dispVars, extVars, kernVars>>

\* delineate_crowns, line 380: _run_region_growing reads params.smoothing_sigma
\* (line 266), which DelineationParams does not have: AttributeError
DelineateRaises ==
    /\ h_pc = "delineate"
    /\ treetops # <<>>
    /\ ~HaloExhausted
    /\ ValidTrees(treetops, HaloTiles[h_idx + 1]) # <<>>
    /\ h_cfg.method = "region_growing"
    /\ h_pc' = "AttributeError"
    /\ UNCHANGED <<chm, h_cfg, treetops, h_tiles, h_idx, h_out>>
    /\ UNCHANGED <<stratVars, dispVars, extVars, kernVars>>

TreetopsNext == DetectTile

CrownsNext == DelineateTile \/ DelineateRaises

-----------------------------------------------------------------------------
(* Inputs of the core+halo drivers.                                        *)

Cheb(p, q) == Max(Abs(p[1] - q[1]), Abs(p[2] - q[2]))

\* a canopy: a crown of height `top` at pixel q, falling 2 per pixel
Bump(h, w, q, top) == [p \in Pixels(h, w) |-> Max(0, top - 2 * Cheb(p, q))]

Flat(h, w, v) == [p \in Pixels(h, w) |-> v]

Tops == {4, 6}

\* canopies of one crown
OneCrown(h, w) == {Bump(h, w, q, top) : q \in Pixels(h, w), top \in Tops}

\* canopies of two crowns
TwoCrowns(h, w) ==
    {[p \in Pixels(h, w) |-> Max(a[p], b[p])] : a \in OneCrown(h, w), b \in OneCrown(h, w)}

ChmRaster(h, w, bs, z) == [hdr |-> Header(w, h, <<1>>, bs), z |-> z]

NoChm == [hdr |-> Unreadable, z |-> <<>>]

\* (mode, tile_size, overlap)
HaloModes(overlaps) ==
    {<<"in_memory", 1, 0>>}
        \cup {<<m, ts, ov>> : m \in {"tiled", "blocked"}, ts \in 1..MaxTile, ov \in overlaps}

HaloConfigs(overlaps, methods) ==
    {[mode |-> hm[1], tile_size |-> hm[2], overlap |-> hm[3], method |-> me] :
        hm \in HaloModes(overlaps), me \in methods}

\* the block shape matters in blocked mode only, the tile size in tiled mode only
HaloCanonical ==
    /\ h_cfg.mode # "blocked" =>
          chm.hdr.block_shapes = <<<<chm.hdr.height, chm.hdr.width>>>>
    /\ h_cfg.mode = "blocked" => h_cfg.tile_size = 1

\* treetop points: x on the half-pixel lattice, y on the pixel centres
TreetopPoints(h, w) ==
    {[x |-> RasterTransform.x0 + k, y |-> RasterTransform.y0 - (2 * r + 1)] :
        k \in 0..(2 * w), r \in 0..(h - 1)}

\* pairs of pixels: the same pixel twice, or two 4-neighbours
NearPairs(h, w) == {pq \in Pixels(h, w) \X Pixels(h, w) : pq[2] = pq[1] \/ pq[2] \in N4(pq[1])}

\* treetop tables of one or two rows; tree_id is 10 + the row number
TreetopTables(h, w) ==
    {<<[tree_id |-> 11, geometry |-> a]>> : a \in TreetopPoints(h, w)}
        \cup {<<[tree_id |-> 11, geometry |-> PixelCentre(RasterTransform, pq[1][1], pq[1][2])],
                 [tree_id |-> 12, geometry |-> PixelCentre(RasterTransform, pq[2][1], pq[2][2])]>> :
                 pq \in NearPairs(h, w)}

\* canopies for the delineator: a plateau, or one crown in a corner
CrownChms(h, w) ==
    {Flat(h, w, 4)} \cup {Bump(h, w, q, top) : q \in {<<0, 0>>, <<h - 1, w - 1>>}, top \in Tops}

\* native blocks that are rows or columns of the raster, or the whole raster
Strips(w, h) == {<<<<1, w>>>>, <<<<h, 1>>>>, <<<<h, w>>>>}

HaloIdle ==
    /\ chm = NoChm
    /\ h_cfg = [mode |-> "none"]
    /\ treetops = <<>>
    /\ h_tiles = <<>>
    /\ h_idx = 0
    /\ h_out = <<>>
    /\ h_pc = "idle"

DetectInit ==
    /\ \E w \in 1..MaxW, h \in 1..MaxH :
          chm \in {ChmRaster(h, w, bs, z) :
                      bs \in NativeBlocks(w, h),
                      z \in {Flat(h, w, 0)} \cup OneCrown(h, w) \cup TwoCrowns(h, w)}
    /\ h_cfg \in HaloConfigs(0..(MaxTile - 1), {"lmf"})
    /\ HaloCanonical
    /\ h_tiles = iter_core_halo(chm.hdr, h_cfg.mode, h_cfg.tile_size, h_cfg.overlap)
    /\ treetops = <<>>
    /\ h_idx = 0
    /\ h_out = <<>>
    /\ h_pc = "detect"

DelineateInit ==
    /\ \E w \in 1..MaxW, h \in 1..MaxH :
          /\ chm \in {ChmRaster(h, w, bs, z) : bs \in Strips(w, h), z \in CrownChms(h, w)}
          /\ treetops \in TreetopTables(h, w)
          /\ h_cfg \in HaloConfigs({0, 1}, {"watershed", "region_growing"})
          \* the region-growing kernel raises before it looks at the canopy
          /\ h_cfg.method = "region_growing" => chm.z = Flat(h, w, 4)
    /\ HaloCanonical
    /\ h_tiles = iter_core_halo(chm.hdr, h_cfg.mode, h_cfg.tile_size, h_cfg.overlap)
    /\ h_idx = 0
    /\ h_out = <<>>
    /\ h_pc = "delineate"

-----------------------------------------------------------------------------
(* Claims about the core+halo drivers.                                     *)

ParentBox == WindowBox(Window(0, 0, chm.hdr.width, chm.hdr.height), RasterTransform)

ChmPixels == Pixels(chm.hdr.height, chm.hdr.width)

\* the pixel p of the raster lies inside the box b
PixelInBox(p, b) ==
    /\ b.minx <= RasterTransform.x0 + 2 * p[2]
    /\ RasterTransform.x0 + 2 * p[2] + 2 <= b.maxx
    /\ b.miny <= RasterTransform.y0 - 2 * p[1] - 2
    /\ RasterTransform.y0 - 2 * p[1] <= b.maxy

BoxInside(a, b) == b.minx <= a.minx /\ a.maxx <= b.maxx /\ b.miny <= a.miny /\ a.maxy <= b.maxy

TileNos == 1..Len(HaloTiles)

\* the tiles whose core box strictly contains the point
Owners(pt) == {k \in TileNos : contains(HaloTiles[k].core_box, pt)}

\* the pixel of the raster as a pixel of the tile's array
Local(p, tile) == <<p[1] - tile.window.row_off, p[2] - tile.window.col_off>>

InWindow(p, tile) ==
    /\ tile.window.row_off <= p[1] /\ p[1] < tile.window.row_off + tile.window.height
    /\ tile.window.col_off <= p[2] /\ p[2] < tile.window.col_off + tile.window.width

SeqToSet(s) == {s[i] : i \in 1..Len(s)}

\* the tile's kernel reports the pixel p of the raster as a peak
DetectedBy(p, k) ==
    /\ InWindow(p, HaloTiles[k])
    /\ Local(p, HaloTiles[k]) \in
          SeqToSet(_detect_peaks_lmf(WindowArray(chm, HaloTiles[k].window),
                                     DetectionParams(h_cfg.method)))

Emissions(pt) == {i \in 1..Len(h_out) : h_out[i].geometry = pt}

\* C4: the core boxes of one run cover every pixel of the parent raster exactly
\* once: each core box lies inside the parent's bounds, every pixel of the parent
\* lies in exactly one core box, and the areas of the core boxes add up to the
\* parent's area (no two core boxes overlap).
C4_CoreCover ==
    h_pc \in {"detect", "delineate", "AttributeError"} =>
        /\ \A k \in TileNos : BoxInside(HaloTiles[k].core_box, ParentBox)
        /\ \A p \in ChmPixels :
              Cardinality({k \in TileNos : PixelInBox(p, HaloTiles[k].core_box)}) = 1
        /\ SumSeq([k \in TileNos |-> HaloTiles[k].core.width * HaloTiles[k].core.height])
              = chm.hdr.width * chm.hdr.height

\* a run over several tiles with a halo, whose last core is clipped by the parent
C4_Witness ==
    /\ h_pc = "detect"
    /\ HaloExhausted
    /\ h_cfg.mode = "tiled" /\ h_cfg.overlap > 0
    /\ Len(HaloTiles) >= 2
    /\ HaloTiles[Len(HaloTiles)].core.width < h_cfg.tile_size
    /\ HaloTiles[1].window # HaloTiles[1].core

\* C5: every treetop detect_treetops yields comes from the tile whose core box
\* contains its point; no point is yielded twice; and when the run is over, a
\* pixel whose centre lies strictly inside a core box has been yielded exactly
\* once if the tile of that core box detected it as a peak, and not at all
\* otherwise (whatever the tiles that see the pixel in their halo detected).
C5_PeakOnce ==
    h_pc = "detect" =>
        /\ \A i \in 1..Len(h_out) :
              LET tile == HaloTiles[h_out[i].tile_no]
              IN  tile.has_boxes => contains(tile.core_box, h_out[i].geometry)
        /\ \A i, j \in 1..Len(h_out) : h_out[i].geometry = h_out[j].geometry => i = j
        /\ HaloExhausted =>
              \A p \in ChmPixels : \A k \in Owners(PixelCentre(RasterTransform, p[1], p[2])) :
                  Cardinality(Emissions(PixelCentre(RasterTransform, p[1], p[2])))
                      = IF DetectedBy(p, k) THEN 1 ELSE 0

\* a finished run in which a peak was yielded by its owner while a neighbouring
\* tile detected the same pixel in its halo
C5_Witness ==
    /\ h_pc = "detect"
    /\ HaloExhausted
    /\ \E p \in ChmPixels : \E k, j \in TileNos :
          /\ k # j
          /\ contains(HaloTiles[k].core_box, PixelCentre(RasterTransform, p[1], p[2]))
          /\ DetectedBy(p, k)
          /\ DetectedBy(p, j)
          /\ Emissions(PixelCentre(RasterTransform, p[1], p[2])) # {}

TreeRows == 1..Len(treetops)

CrownsOf(i) == {n \in 1..Len(h_out) : h_out[n].tree_id = treetops[i].tree_id}

RunOver == h_pc = "delineate" /\ HaloExhausted

\* the crown of the treetop was yielded exactly once, by an owner of its apex
YieldedOnceByOwner(i) ==
    /\ Cardinality(CrownsOf(i)) = 1
    /\ \A n \in CrownsOf(i) : h_out[n].tile_no \in Owners(treetops[i].geometry)

KeepsMarker(i, k) ==
    LET tile   == HaloTiles[k]
        arr    == WindowArray(chm, tile.window)
        closed == minimum_filter(maximum_filter(arr, 3), 3)
        params == DelineationParams(h_cfg.method)
    IN  /\ closed.z[ApexPixel(treetops[i], tile)] >= params.min_height
        /\ \A j \in TreeRows :
              (j > i /\ ValidTree(treetops[j], tile)) =>
                  ApexPixel(treetops[j], tile) # ApexPixel(treetops[i], tile)

C30_RegionGrowingCompletes ==
    h_cfg.method = "region_growing" => h_pc # "AttributeError"

-----------------------------------------------------------------------------
(* The tile stitcher behind STITCH: what the output file holds after the   *)
(* writes of a dispatch.                                                   *)

\* pixel <<row, col>> lies in the window
PixelIn(p, window) ==
    /\ window.row_off <= p[1] /\ p[1] < window.row_off + window.height
    /\ window.col_off <= p[2] /\ p[2] < window.col_off + window.width

\* the TileStitcher's file of h x w pixels after the writes were made in the
\* order given: a pixel holds what the last write over it put there, <<tile>>
\* for the result it came from, or <<>> when no window held it
stitched(writes, order, h, w) ==
    [p \in Pixels(h, w) |->
        LET hits == {k \in 1..Len(order) : PixelIn(p, writes[order[k]].window)}
        IN  IF hits = {} THEN <<>> ELSE <<writes[order[SetMax(hits)]].tile>>]

\* the order 1..n with k moved to the end
MoveToEnd(n, k) == [i \in 1..n |-> IF i < k THEN i ELSE IF i < n THEN i + 1 ELSE k]

StitchReturned ==
    d_pc = "returned" /\ config.aggregation = "stitch" /\ mode \in {"blocked", "tiled"}

\* the writes over pixel p
WritesOver(p) == {k \in 1..Len(out_file.writes) : PixelIn(p, out_file.writes[k].window)}

\* whichever write is made last, the file is the same, and every pixel was
\* written by exactly one tile
OrderIndependent ==
    LET writes == out_file.writes
        n == Len(writes)
        h == input_map[1].hdr.height
        w == input_map[1].hdr.width
    IN  /\ \A k \in 1..n :
              stitched(writes, MoveToEnd(n, k), h, w) = stitched(writes, [i \in 1..n |-> i], h, w)
        /\ \A p \in Pixels(h, w) : Cardinality(WritesOver(p)) = 1

\* C29: the stitched output of a STITCH dispatch is the same whatever order
\* the tiles are written in, and each output pixel holds the value computed by
\* the single tile that owns it, also when config.overlap > 0.
C29_StitchOrderIndependent == StitchReturned => OrderIndependent

\* what does hold: without overlap between the windows
C29_WithoutOverlap ==
    (StitchReturned /\ (mode = "blocked" \/ config.overlap = 0)) => OrderIndependent

-----------------------------------------------------------------------------
(* extract.py                                                              *)
(* Polygons are axis-aligned rectangles given on the raster's pixel grid   *)
(* (their bounds through the inverse transform), in quarter pixels: pixel  *)
(* C spans 4C..4C+4 and has its centre at 4C+2; c0 < c1 are the left and   *)
(* right edges, r0 < r1 the top and bottom edges.                          *)

Rect(c0, c1, r0, r1) == [c0 |-> c0, c1 |-> c1, r0 |-> r0, r1 |-> r1]

\* Raster.nodata: None, or a float (which may be NaN)
NoNodata == [has |-> FALSE, val |-> 0]
Nodata(v) == [has |-> TRUE, val |-> v]

\* a tile the raster iterator yields: (window, tile_raster); has_window = FALSE
\* stands for window = None
ExtractTile(has_window, window) == [has_window |-> has_window, window |-> window]

\* from_bounds(*geometry.bounds, transform=raster.transform).round_offsets()
\* .round_lengths(), in the pixels of the tile: the offsets are floored and the
\* fractional lengths, which the floor leaves alone, are rounded up
geom_window(geometry, tile) ==
    Window((geometry.c0 - 4 * tile.window.col_off) \div 4,
           (geometry.r0 - 4 * tile.window.row_off) \div 4,
           (geometry.c1 - geometry.c0 + 3) \div 4,
           (geometry.r1 - geometry.r0 + 3) \div 4)

\* raster_window.intersection(geom_window); width = 0 stands for WindowError
intersection(tile, gw) ==
    LET c_lo == Max(0, gw.col_off)
        c_hi == Min(tile.window.width, gw.col_off + gw.width)
        r_lo == Max(0, gw.row_off)
        r_hi == Min(tile.window.height, gw.row_off + gw.height)
    IN  IF c_lo >= c_hi \/ r_lo >= r_hi THEN Window(0, 0, 0, 0)
        ELSE Window(c_lo, r_lo, c_hi - c_lo, r_hi - r_lo)

\* the pixels of the raster under a window of the tile
PixelsUnder(tile, sw) ==
    {<<r, c>> : r \in (tile.window.row_off + sw.row_off)..
                      (tile.window.row_off + sw.row_off + sw.height - 1),
                c \in (tile.window.col_off + sw.col_off)..
                      (tile.window.col_off + sw.col_off + sw.width - 1)}

\* geometry_mask(all_touched=False): the pixel's centre lies in the polygon
CentreIn(p, geometry) ==
    /\ geometry.c0 < 4 * p[2] + 2 /\ 4 * p[2] + 2 < geometry.c1
    /\ geometry.r0 < 4 * p[1] + 2 /\ 4 * p[1] + 2 < geometry.r1

\* geometry_mask(all_touched=True): the polygon touches the pixel
Touched(p, geometry) ==
    /\ geometry.c0 < 4 * p[2] + 4 /\ 4 * p[2] < geometry.c1
    /\ geometry.r0 < 4 * p[1] + 4 /\ 4 * p[1] < geometry.r1

geometry_mask(geometry, tile, sw, all_touched) ==
    {p \in PixelsUnder(tile, sw) :
        IF all_touched THEN Touched(p, geometry) ELSE CentreIn(p, geometry)}

\* line 70
needs_all_touched(safe_window) == safe_window.width <= 2 \/ safe_window.height <= 2

\* lines 50-90: the pixels of the raster the polygon selects in the tile
SelectedPixels(geometry, tile) ==
    LET safe_window == intersection(tile, geom_window(geometry, tile))
        strict      == geometry_mask(geometry, tile, safe_window, FALSE)
        touched     == geometry_mask(geometry, tile, safe_window, TRUE)
    IN  IF safe_window.width = 0 THEN {}
        ELSE IF needs_all_touched(safe_window) THEN touched
        ELSE IF strict = {} THEN touched
        ELSE strict

\* the pixels of a set in row-major order (boolean indexing)
RECURSIVE InOrder(_, _)
InOrder(S, w) ==
    IF S = {} THEN <<>>
    ELSE LET p == CHOOSE x \in S : \A y \in S : x[1] * w + x[2] <= y[1] * w + y[2]
         IN  <<p>> \o InOrder(S \ {p}, w)

RECURSIVE GCD(_, _)
GCD(a, b) == IF b = 0 THEN a ELSE GCD(b, a % b)

\* a fraction in lowest terms
Frac(num, den) == <<num \div GCD(num, den), den \div GCD(num, den)>>

Less(a, b) == a < b

\* np.median, np.mean, np.std, np.min, np.max of the values of one band, in
\* exact arithmetic: twice the median, the mean and the variance (the square of
\* the sd) as fractions
Stats(values) ==
    LET n      == Len(values)
        sorted == SortSeq(values, Less)
        sum    == SumSeq(values)
        sumsq  == SumSeq([i \in 1..n |-> values[i] * values[i]])
    IN  [med2 |-> IF n % 2 = 1 THEN 2 * sorted[(n + 1) \div 2]
                  ELSE sorted[n \div 2] + sorted[n \div 2 + 1],
         mean |-> Frac(sum, n),
         var  |-> Frac(n * sumsq - sum * sum, n * n),
         min  |-> sorted[1],
         max  |-> sorted[n]]

\* {} : nothing extracted
NoFeats == [kind |-> "empty", bands |-> <<>>]

\* the "<band>_values" lists
RawFeats(values) == [kind |-> "values", bands |-> values]

\* the "<band>_med", "_mean", "_sd", "_min", "_max" of every band
StatFeats(values) == [kind |-> "stats", bands |-> [b \in 1..Len(values) |-> Stats(values[b])]]

\* a filter that looks at the first band only
valid_col_first_band(source, p, threshold) ==
    /\ ~(source.nodata.has /\ source.bands[1][p] = source.nodata.val)
    /\ source.bands[1][p] > threshold

\* a filter that keeps the pixels the threshold should drop
valid_col_inverted(source, p, threshold) ==
    /\ \A b \in 1..Len(source.bands) :
          ~(source.nodata.has /\ source.bands[b][p] = source.nodata.val)
    /\ \A b \in 1..Len(source.bands) : source.bands[b][p] <= threshold

\* lines 96-105: valid_cols of one pixel column; the pixel is dropped when any
\* band is at the nodata value or is not above the threshold (the threshold is
\* a number: extract_features passes its float argument)
valid_col(source, p, threshold) ==
    /\ \A b \in 1..Len(source.bands) :
          ~(source.nodata.has /\ source.bands[b][p] = source.nodata.val)
    /\ \A b \in 1..Len(source.bands) : source.bands[b][p] > threshold

\* lines 95-109: masked_pixels, the values of every band at the pixels of the
\* mask that pass the filter, in row-major order
masked_pixels(source, mask, threshold) ==
    LET cols == InOrder({p \in mask : valid_col(source, p, threshold)}, source.hdr.width)
    IN  [b \in 1..Len(source.bands) |->
            [i \in 1..Len(cols) |-> source.bands[b][cols[i]]]]

\* lines 89-90, 108-136: what is returned for a mask
FeatsOfMask(source, mask, threshold, return_raw) ==
    LET values == masked_pixels(source, mask, threshold)
    IN  IF \A p \in mask : ~valid_col(source, p, threshold) THEN NoFeats
        ELSE IF return_raw THEN RawFeats(values)
        ELSE StatFeats(values)

\* _process_geometry_in_memory(raster, geometry, threshold, return_raw) on the
\* tile of `source`
_process_geometry_in_memory(source, tile, geometry, threshold, return_raw) ==
    FeatsOfMask(source, SelectedPixels(geometry, tile), threshold, return_raw)

\* local_trees.intersects(tile_box), line 191
IntersectsTile(geometry, tile) ==
    /\ geometry.c0 <= 4 * (tile.window.col_off + tile.window.width)
    /\ 4 * tile.window.col_off <= geometry.c1
    /\ geometry.r0 <= 4 * (tile.window.row_off + tile.window.height)
    /\ 4 * tile.window.row_off <= geometry.r1

\* geom.within(tile_box)
Within(geometry, tile) ==
    /\ 4 * tile.window.col_off <= geometry.c0
    /\ geometry.c1 <= 4 * (tile.window.col_off + tile.window.width)
    /\ 4 * tile.window.row_off <= geometry.r0
    /\ geometry.r1 <= 4 * (tile.window.row_off + tile.window.height)

\* a classification that takes every polygon for fully inside
is_fully_within_always(tile, geometry) == TRUE

\* line 203
is_fully_within(tile, geometry) == ~tile.has_window \/ Within(geometry, tile)

\* a buffer that opens a new entry for every tile's pixels
buffer_append(buffer, crown_id, values) ==
    Append(buffer, [crown_id |-> crown_id, bands |-> values])

\* line 240: boundary_buffer[crown_id][key].extend(val); the buffer is kept as
\* the sequence of its entries, in insertion order
buffer_extend(buffer, crown_id, values) ==
    IF \E k \in 1..Len(buffer) : buffer[k].crown_id = crown_id
    THEN [k \in 1..Len(buffer) |->
            IF buffer[k].crown_id = crown_id
            THEN [buffer[k] EXCEPT !.bands = [b \in 1..Len(values) |-> @[b] \o values[b]]]
            ELSE buffer[k]]
    ELSE Append(buffer, [crown_id |-> crown_id, bands |-> values])

\* lines 233-235 and 272-290: a yielded record; `phase` and `tile_no` record
\* where the generator yielded it
ExtractRecord(crown_id, meta, feats, phase, tile_no) ==
    [crown_id |-> crown_id, species |-> meta.species, raster_source |-> meta.raster_source,
     feats |-> feats, phase |-> phase, tile_no |-> tile_no]

\* lines 197-240: one row of local_trees against one tile; st holds
\* fully_processed_ids, crown_metadata, boundary_buffer and the records yielded
RowStep(st, row, tile, tile_no, source, cfg) ==
    LET within    == is_fully_within(tile, row.geometry)
        force_raw == ~within
        feats     == _process_geometry_in_memory(source, tile, row.geometry, cfg.threshold,
                                                 cfg.return_raw \/ force_raw)
        meta      == [species |-> row.species, raster_source |-> source.name]
    IN  IF row.crown_id \in st.ids \/ feats = NoFeats THEN st
        ELSE IF within
        THEN [st EXCEPT !.ids = @ \cup {row.crown_id},
                        !.out = Append(@, ExtractRecord(row.crown_id, meta, feats,
                                                        "stream", tile_no))]
        ELSE [st EXCEPT !.meta = IF row.crown_id \in DOMAIN @ THEN @
                                 ELSE (row.crown_id :> meta) @@ @,
                        !.buffer = buffer_extend(@, row.crown_id, feats.bands)]

\* lines 197-240: the rows of local_trees, in the order `order` lists them
RECURSIVE RunRows(_, _, _, _, _, _, _)
RunRows(st, rows, order, tile, tile_no, source, cfg) ==
    IF order = <<>> THEN st
    ELSE RunRows(RowStep(st, rows[Head(order)], tile, tile_no, source, cfg),
                 rows, Tail(order), tile, tile_no, source, cfg)

\* the orders in which the spatial index may return the rows of a set
Orders(S) ==
    {o \in [1..Cardinality(S) -> S] : \A i, j \in 1..Cardinality(S) : o[i] = o[j] => i = j}

-----------------------------------------------------------------------------
(* extract_features as a state machine: one step per tile of the raster    *)
(* iterator, then one step per crown of the boundary buffer.               *)

WholeWindow(source) == Window(0, 0, source.hdr.width, source.hdr.height)

\* lines 245 and 257-265: the raster iterator of a report mode
raster_iterator(source, report_mode, tile_size) ==
    LET windows == IF report_mode = "blocked" THEN iter_blocks(source.hdr)
                   ELSE iter_tiles(source.hdr, tile_size, 0)
    IN  IF report_mode = "in_memory"
        THEN <<ExtractTile(FALSE, WholeWindow(source))>>
        ELSE [k \in 1..Len(windows) |-> ExtractTile(TRUE, windows[k])]

\* line 245: a Raster object is intersected whole
ExtractOpen ==
    /\ e_pc = "open"
    /\ IsRaster(e_src)
    /\ e_tiles' = raster_iterator(e_src, "in_memory", e_cfg.tile_size)
    /\ e_pc' = "stream"
    /\ UNCHANGED <<e_src, e_rows, e_cfg, e_idx, e_tail, fully_processed_ids,
                   crown_metadata, boundary_buffer, e_out, e_handle>>
    /\ UNCHANGED <<stratVars, dispVars, haloVars, kernVars>>

\* a with block that leaves the dataset as it is
with_exit_leaked(handle) == handle

\* line 251: leaving `with rasterio.open(path) as src`, by its end or by an
\* exception, closes the dataset
with_exit(handle) == "closed"

\* line 255: determine_strategy is given the open dataset instead of its path;
\* Path(raster_path) (resources.py, line 185) raises TypeError outside the try,
\* inside the with block of line 251
ExtractOpenRaises ==
    /\ e_pc = "open"
    /\ ~IsRaster(e_src)
    /\ e_pc' = "TypeError"
    /\ e_handle' = with_exit("open")
    /\ UNCHANGED <<e_src, e_rows, e_cfg, e_tiles, e_idx, e_tail, fully_processed_ids,
                   crown_metadata, boundary_buffer, e_out>>
    /\ UNCHANGED <<stratVars, dispVars, haloVars, kernVars>>

\* lines 182-240: one tile of the raster iterator; the spatial index returns the
\* rows that intersect the tile in no guaranteed order
ProcessTile ==
    /\ e_pc = "stream"
    /\ e_idx < Len(e_tiles)
    /\ LET tile  == e_tiles[e_idx + 1]
           local == {i \in 1..Len(e_rows) : IntersectsTile(e_rows[i].geometry, tile)}
       IN  \E order \in Orders(local) :
              LET st == RunRows([ids |-> fully_processed_ids, meta |-> crown_metadata,
                                 buffer |-> boundary_buffer, out |-> e_out],
                                e_rows, order, tile, e_idx + 1, e_src, e_cfg)
              IN  /\ fully_processed_ids' = st.ids
                  /\ crown_metadata' = st.meta
                  /\ boundary_buffer' = st.buffer
                  /\ e_out' = st.out
    /\ e_idx' = e_idx + 1
    /\ e_pc' = IF e_idx + 1 = Len(e_tiles) THEN "tail" ELSE "stream"
    /\ e_handle' = IF e_idx + 1 = Len(e_tiles) THEN with_exit(e_handle) ELSE e_handle
    /\ UNCHANGED <<e_src, e_rows, e_cfg, e_tiles, e_tail>>
    /\ UNCHANGED <<stratVars, dispVars, haloVars, kernVars>>

\* lines 269-290: one crown of the boundary buffer
DrainCrown ==
    /\ e_pc = "tail"
    /\ e_tail < Len(boundary_buffer)
    /\ LET entry == boundary_buffer[e_tail + 1]
           feats == IF e_cfg.return_raw THEN RawFeats(entry.bands)
                    ELSE StatFeats(entry.bands)
       IN  e_out' = IF entry.crown_id \in fully_processed_ids THEN e_out
                    ELSE Append(e_out, ExtractRecord(entry.crown_id,
                                                     crown_metadata[entry.crown_id],
                                                     feats, "tail", 0))
    /\ e_tail' = e_tail + 1
    /\ UNCHANGED <<e_src, e_rows, e_cfg, e_tiles, e_idx, e_pc, fully_processed_ids,
                   crown_metadata, boundary_buffer, e_handle>>
    /\ UNCHANGED <<stratVars, dispVars, haloVars, kernVars>>

\* line 290: the buffer is exhausted and the generator returns
TailEnd ==
    /\ e_pc = "tail"
    /\ e_tail = Len(boundary_buffer)
    /\ e_pc' = "done"
    /\ UNCHANGED <<e_src, e_rows, e_cfg, e_tiles, e_idx, e_tail, fully_processed_ids,
                   crown_metadata, boundary_buffer, e_out, e_handle>>
    /\ UNCHANGED <<stratVars, dispVars, haloVars, kernVars>>

\* the consumer takes the record of the n-th row of the next tile and closes
\* the generator there: GeneratorExit is raised at the yield of line 235, inside
\* the with block, and the frame with its buffers is released
AbandonStream ==
    /\ e_pc = "stream"
    /\ e_idx < Len(e_tiles)
    /\ LET tile  == e_tiles[e_idx + 1]
           local == {i \in 1..Len(e_rows) : IntersectsTile(e_rows[i].geometry, tile)}
           st0   == [ids |-> fully_processed_ids, meta |-> crown_metadata,
                     buffer |-> boundary_buffer, out |-> e_out]
       IN  \E order \in Orders(local), n \in 1..Cardinality(local) :
              LET before == RunRows(st0, e_rows, SubSeq(order, 1, n - 1), tile,
                                    e_idx + 1, e_src, e_cfg)
                  st     == RunRows(st0, e_rows, SubSeq(order, 1, n), tile,
                                    e_idx + 1, e_src, e_cfg)
              IN  /\ Len(st.out) > Len(before.out)
                  /\ e_out' = st.out
    /\ e_pc' = "GeneratorExit"
    /\ e_handle' = with_exit(e_handle)
    /\ fully_processed_ids' = {}
    /\ crown_metadata' = <<>>
    /\ boundary_buffer' = <<>>
    /\ UNCHANGED <<e_src, e_rows, e_cfg, e_tiles, e_idx, e_tail>>
    /\ UNCHANGED <<stratVars, dispVars, haloVars, kernVars>>

\* the consumer closes the generator after a record of the tail (line 290)
AbandonTail ==
    /\ e_pc = "tail"
    /\ e_out # <<>>
    /\ e_out[Len(e_out)].phase = "tail"
    /\ e_tail < Len(boundary_buffer)
    /\ e_pc' = "GeneratorExit"
    /\ fully_processed_ids' = {}
    /\ crown_metadata' = <<>>
    /\ boundary_buffer' = <<>>
    /\ UNCHANGED <<e_src, e_rows, e_cfg, e_tiles, e_idx, e_tail, e_out, e_handle>>
    /\ UNCHANGED <<stratVars, dispVars, haloVars, kernVars>>

\* the raster iterator fails to read its next tile: the exception leaves
\* _execute_intersection and the with block, and the tail loop is not run
ReadRaises ==
    /\ e_pc = "stream"
    /\ e_idx < Len(e_tiles)
    /\ e_tiles[e_idx + 1].has_window
    /\ e_pc' = "RasterioIOError"
    /\ e_handle' = with_exit(e_handle)
    /\ UNCHANGED <<e_src, e_rows, e_cfg, e_tiles, e_idx, e_tail, fully_processed_ids,
                   crown_metadata, boundary_buffer, e_out>>
    /\ UNCHANGED <<stratVars, dispVars, haloVars, kernVars>>

\* extract_features from its call
ExtractNext == ExtractOpen \/ ExtractOpenRaises \/ ProcessTile \/ TailEnd

\* _execute_intersection and the tail loop, from a raster iterator
IntersectNext == ProcessTile \/ DrainCrown \/ TailEnd

\* the same with a consumer that may stop early and reads that may fail
ConsumedNext ==
    ProcessTile \/ DrainCrown \/ TailEnd \/ AbandonStream \/ AbandonTail \/ ReadRaises

\* ---- extract_to_dataframe (lines 292-325): the generator's consumer ----
\* k_pc is the statement that reads results_gen, k_calls the number of records
\* read from it so far, k_args the records the running attempt holds, k_ret the
\* rows of the DataFrame returned

\* the exceptions extract_features raises
ExtractRaised == e_pc \in {"TypeError", "RasterioIOError"}

\* next(results_gen) hands over a record, to pl.from_dicts (line 321) or to
\* list (line 323): both read the one generator object
NextRecord ==
    /\ k_pc \in {"from_dicts", "list"}
    /\ k_calls < Len(e_out)
    /\ k_calls' = k_calls + 1
    /\ k_args' = Append(k_args, e_out[k_calls + 1])
    /\ UNCHANGED <<k_ret, k_pc>>
    /\ UNCHANGED <<stratVars, dispVars, haloVars, extVars>>

\* line 321: pl.from_dicts has read every record and returns the table
FromDictsReturns ==
    /\ k_pc = "from_dicts"
    /\ e_pc = "done"
    /\ k_calls = Len(e_out)
    /\ k_ret' = k_args
    /\ k_pc' = "returned"
    /\ UNCHANGED <<k_args, k_calls>>
    /\ UNCHANGED <<stratVars, dispVars, haloVars, extVars>>

\* lines 321-322: pl.from_dicts raises while it builds the table from the
\* records read so far; the records it holds go with it, the generator stays
\* suspended where it is
FromDictsRaises ==
    /\ k_pc = "from_dicts"
    /\ k_calls >= 1
    /\ k_args' = <<>>
    /\ k_pc' = "list"
    /\ UNCHANGED <<k_ret, k_calls>>
    /\ UNCHANGED <<stratVars, dispVars, haloVars, extVars>>

\* lines 321-322: the generator raises into pl.from_dicts; except Exception
\* catches it, and a generator that has raised is finished
GeneratorRaises ==
    /\ k_pc = "from_dicts"
    /\ ExtractRaised
    /\ k_calls = Len(e_out)
    /\ k_args' = <<>>
    /\ k_pc' = "list_finished"
    /\ UNCHANGED <<k_ret, k_calls>>
    /\ UNCHANGED <<stratVars, dispVars, haloVars, extVars>>

\* lines 323-325: list(results_gen) has what the generator had left, and
\* pl.DataFrame(results) is returned
ListReturns ==
    /\ \/ k_pc = "list" /\ e_pc = "done" /\ k_calls = Len(e_out)
       \/ k_pc = "list_finished"
    /\ k_ret' = k_args
    /\ k_pc' = "returned"
    /\ UNCHANGED <<k_args, k_calls>>
    /\ UNCHANGED <<stratVars, dispVars, haloVars, extVars>>

\* extract_to_dataframe from its call
DataFrameNext ==
    \/ ExtractNext
    \/ NextRecord \/ FromDictsReturns \/ FromDictsRaises \/ GeneratorRaises
    \/ ListReturns

-----------------------------------------------------------------------------
(* Inputs of the extractor.                                                *)

Rank0(p, w) == p[1] * w + p[2]

\* rasters of one or two bands; 0 is a value the threshold rejects
BandSets(h, w) ==
    {<<[p \in Pixels(h, w) |-> Rank0(p, w) + 1]>>,
     <<[p \in Pixels(h, w) |-> IF p = <<0, 0>> THEN 0 ELSE Rank0(p, w) + 1]>>,
     <<[p \in Pixels(h, w) |-> Rank0(p, w) + 1],
       [p \in Pixels(h, w) |-> IF p = <<h - 1, w - 1>> THEN 0 ELSE 2 * Rank0(p, w) + 2]>>}

ExtractSource(kind, h, w, bs, bands) ==
    [kind |-> kind, name |-> IF kind = "raster" THEN "memory_raster" ELSE "scene",
     hdr |-> Header(w, h, [b \in 1..Len(bands) |-> 1], bs), bands |-> bands,
     nodata |-> NoNodata]

NoSource ==
    [kind |-> "none", name |-> "", hdr |-> Unreadable, bands |-> <<>>, nodata |-> NoNodata]

Odd(lo, hi) == {x \in lo..hi : x % 2 = 1}

\* the rectangles that lie inside the raster, edges on odd quarter pixels
InsideRects(h, w) ==
    {g \in {Rect(c0, c1, r0, r1) : c0 \in Odd(1, 4 * w - 1), c1 \in Odd(1, 4 * w - 1),
                                   r0 \in Odd(1, 4 * h - 1), r1 \in Odd(1, 4 * h - 1)} :
        g.c0 < g.c1 /\ g.r0 < g.r1}

\* a rectangle inside the first pixel, one over the whole raster but its rim,
\* and two that stick out of the raster
Notable(h, w) ==
    {Rect(1, 3, 1, 3), Rect(1, 4 * w - 1, 1, 4 * h - 1),
     Rect(4 * w - 3, 4 * w + 1, 1, 3), Rect(-1, 3, 4 * h - 3, 4 * h + 1)}

VectorRow(i, geometry) == [crown_id |-> 20 + i, species |-> "oak", geometry |-> geometry]

\* vector tables of one or two rows with distinct crown_id
VectorTables(h, w) ==
    {<<VectorRow(1, a)>> : a \in InsideRects(h, w) \cup Notable(h, w)}
        \cup {<<VectorRow(1, ab[1]), VectorRow(2, ab[2])>> :
                 ab \in {x \in Notable(h, w) \X Notable(h, w) : x[1] # x[2]}}

ExtractConfigs(modes) ==
    {[tile_mode |-> m, tile_size |-> ts, return_raw |-> rr, threshold |-> 0] :
        m \in modes, ts \in 1..MaxTile, rr \in BOOLEAN}

\* the block shape matters in blocked mode only, the tile size in tiled mode only
ExtractCanonical ==
    /\ e_cfg.tile_mode # "blocked" =>
          e_src.hdr.block_shapes = <<<<e_src.hdr.height, e_src.hdr.width>>>>
    /\ e_cfg.tile_mode # "tiled" => e_cfg.tile_size = 1

ExtractIdle ==
    /\ e_src = NoSource
    /\ e_rows = <<>>
    /\ e_cfg = [tile_mode |-> "none"]
    /\ e_tiles = <<>>
    /\ e_idx = 0
    /\ e_tail = 0
    /\ fully_processed_ids = {}
    /\ crown_metadata = <<>>
    /\ boundary_buffer = <<>>
    /\ e_out = <<>>
    /\ e_pc = "idle"
    /\ e_handle = "closed"

\* lines 172-174: the empty buffers of a fresh generator
ExtractFresh ==
    /\ e_idx = 0
    /\ e_tail = 0
    /\ fully_processed_ids = {}
    /\ crown_metadata = <<>>
    /\ boundary_buffer = <<>>
    /\ e_out = <<>>

\* extract_features is called on a Raster object or on a file
ExtractInit ==
    /\ \E w \in 1..MaxCols, h \in 1..MaxRows :
          /\ e_src \in {ExtractSource(kind, h, w, <<<<h, w>>>>, bands) :
                           kind \in {"raster", "path"}, bands \in BandSets(h, w)}
          /\ e_rows \in VectorTables(h, w)
    /\ e_cfg \in ExtractConfigs(ProcessingMode \cup {"auto"})
    /\ ExtractCanonical
    /\ e_tiles = <<>>
    /\ ExtractFresh
    /\ e_pc = "open"
    /\ e_handle = "closed"

\* _execute_intersection is given the raster iterator of a report mode
IntersectInit ==
    /\ \E w \in 1..MaxCols, h \in 1..MaxRows :
          /\ e_src \in {ExtractSource("path", h, w, bs, bands) :
                           bs \in NativeBlocks(w, h), bands \in BandSets(h, w)}
          /\ e_rows \in VectorTables(h, w)
    /\ e_cfg \in ExtractConfigs(ProcessingMode)
    /\ ExtractCanonical
    /\ e_tiles = raster_iterator(e_src, e_cfg.tile_mode, e_cfg.tile_size)
    /\ ExtractFresh
    /\ e_pc = "stream"
    /\ e_handle = "open"

-----------------------------------------------------------------------------
(* Claims about the extractor.                                             *)

ExtractRunning == e_pc \in {"stream", "tail", "done"}

RowNos == 1..Len(e_rows)

ExtractTileNos == 1..Len(e_tiles)

\* the row a record was extracted for
RowOf(rec) == CHOOSE i \in RowNos : e_rows[i].crown_id = rec.crown_id

\* the tiles that hold the polygon of the row whole
OwningTiles(i) ==
    {k \in ExtractTileNos : ~e_tiles[k].has_window \/ Within(e_rows[i].geometry, e_tiles[k])}

\* the polygon of the row crosses a tile boundary
Crossing(i) == OwningTiles(i) = {}

\* the tiles in which the polygon of the row selects pixels the threshold keeps
ContributingTiles(i) ==
    {k \in ExtractTileNos :
        _process_geometry_in_memory(e_src, e_tiles[k], e_rows[i].geometry,
                                    e_cfg.threshold, TRUE) # NoFeats}

\* C1: the records extract_features has yielded carry pairwise distinct
\* crown_id: no polygon is yielded twice, neither from two tiles nor from a tile
\* and from the boundary buffer, however many tiles it crosses.
C1_UniqueCrownIds ==
    ExtractRunning =>
        \A m, n \in 1..Len(e_out) : e_out[m].crown_id = e_out[n].crown_id => m = n

\* a finished run that yielded a fully-inside polygon from its tile and a
\* boundary-crossing polygon, with pixels from several tiles, from the buffer
C1_Witness ==
    /\ e_pc = "done"
    /\ Len(e_out) = 2
    /\ e_out[1].phase = "stream"
    /\ e_out[2].phase = "tail"
    /\ Cardinality(ContributingTiles(RowOf(e_out[2]))) >= 2

BoundaryYielded == \E n \in 1..Len(e_out) : Crossing(RowOf(e_out[n]))

\* the records yielded so far: fully-inside ones in the order of their tiles,
\* boundary-crossing ones after them and after the last tile
C2_Order ==
    ExtractRunning =>
        /\ BoundaryYielded => e_idx = Len(e_tiles)
        /\ \A m, n \in 1..Len(e_out) :
              (m < n /\ ~Crossing(RowOf(e_out[n]))) =>
                  /\ ~Crossing(RowOf(e_out[m]))
                  /\ \A a \in OwningTiles(RowOf(e_out[m])), b \in OwningTiles(RowOf(e_out[n])) :
                        a <= b

\* a step yields a fully-inside polygon only while it processes the tile that
\* owns it, and a boundary-crossing polygon only from the buffer, when all tiles
\* are processed; no tile is read once a boundary record is out
C2_Step ==
    ExtractRunning =>
        /\ \A n \in (Len(e_out) + 1)..Len(e_out') :
              IF Crossing(RowOf(e_out'[n]))
              THEN e_pc = "tail" /\ e_idx = Len(e_tiles) /\ e_idx' = e_idx
              ELSE e_pc = "stream" /\ e_idx' = e_idx + 1
                      /\ e_idx' \in OwningTiles(RowOf(e_out'[n]))
        /\ BoundaryYielded => e_idx' = e_idx

\* C2: records of fully-inside polygons are yielded while the tiles are
\* streamed, in the order their owning tiles are visited; records of
\* boundary-crossing polygons are yielded only after the last tile, as one tail
\* batch; once a boundary record has been yielded no further tile is read.
C2_Ordering == [](C2_Order) /\ [][C2_Step]_vars

\* a finished run over several tiles that yielded a fully-inside polygon before
\* its last tile and a boundary-crossing polygon in the tail
C2_Witness ==
    /\ e_pc = "done"
    /\ \E m, n \in 1..Len(e_out) :
          /\ m < n
          /\ ~Crossing(RowOf(e_out[m]))
          /\ e_out[m].tile_no < Len(e_tiles)
          /\ Crossing(RowOf(e_out[n]))

\* the polygon lies entirely inside the raster
InsideRaster(geometry) == Within(geometry, ExtractTile(TRUE, WholeWindow(e_src)))

\* the statistics of the polygon when the raster is processed whole
InMemoryFeats(i) ==
    _process_geometry_in_memory(e_src, ExtractTile(FALSE, WholeWindow(e_src)),
                                e_rows[i].geometry, e_cfg.threshold, FALSE)

FeatsYielded(i) == {e_out[n].feats : n \in {x \in 1..Len(e_out) : RowOf(e_out[x]) = i}}

-----------------------------------------------------------------------------
(* The pixel filter of the extractor: runs over rasters with a nodata      *)
(* value and under several thresholds.                                      *)

Thresholds == {-1, 0, 3}

\* the raster with a nodata value
WithNodata(source, nodata) == [source EXCEPT !.nodata = nodata]

\* one polygon: its corner in the first pixel, before or past the pixel's
\* centre, or one of the notable ones
FilterTables(h, w) ==
    {<<VectorRow(1, g)>> :
        g \in {Rect(x[1], x[2], x[1], x[3]) :
                  x \in {y \in {1, 3} \X Odd(3, 4 * w - 1) \X Odd(3, 4 * h - 1) :
                            y[1] < y[2] /\ y[1] < y[3]}}
              \cup Notable(h, w)}

\* _execute_intersection is given the raster iterator of a report mode
FilterInit ==
    /\ \E w \in 1..MaxCols, h \in 1..MaxRows :
          /\ e_src \in {WithNodata(ExtractSource("path", h, w, bs, bands), nd) :
                           bs \in NativeBlocks(w, h), bands \in BandSets(h, w),
                           nd \in {NoNodata, Nodata(2)}}
          /\ e_rows \in FilterTables(h, w)
    /\ e_cfg \in {[c EXCEPT !.threshold = t] :
                     c \in ExtractConfigs(ProcessingMode), t \in Thresholds}
    /\ ExtractCanonical
    /\ e_tiles = raster_iterator(e_src, e_cfg.tile_mode, e_cfg.tile_size)
    /\ ExtractFresh
    /\ e_pc = "stream"
    /\ e_handle = "open"

\* the mask the specification describes: the strict mask, and the any-touched
\* mask only when the strict one is empty
StrictFirst(geometry, tile) ==
    LET safe_window == intersection(tile, geom_window(geometry, tile))
        strict      == geometry_mask(geometry, tile, safe_window, FALSE)
        touched     == geometry_mask(geometry, tile, safe_window, TRUE)
    IN  IF safe_window.width = 0 THEN {}
        ELSE IF strict = {} THEN touched
        ELSE strict

MaskOf(geometry, tile, strict_first) ==
    IF strict_first THEN StrictFirst(geometry, tile) ELSE SelectedPixels(geometry, tile)

\* the pixels of row i that tile k contributes under `threshold`, in order
KeptPixels(i, k, threshold, strict_first) ==
    InOrder({p \in MaskOf(e_rows[i].geometry, e_tiles[k], strict_first) :
                valid_col(e_src, p, threshold)},
            e_src.hdr.width)

\* the pixels of row i gathered over the tiles 1..k, in visit order
RECURSIVE GatheredPixels(_, _, _, _)
GatheredPixels(i, k, threshold, strict_first) ==
    IF k = 0 THEN <<>>
    ELSE GatheredPixels(i, k - 1, threshold, strict_first)
            \o (IF IntersectsTile(e_rows[i].geometry, e_tiles[k])
                THEN KeptPixels(i, k, threshold, strict_first) ELSE <<>>)

\* the pixels behind a record of row i: those of its tile for a record yielded
\* from a tile, those of all tiles for a record finalized from the buffer
PixelsBehind(i, phase, tile_no, threshold, strict_first) ==
    IF phase = "stream" THEN KeptPixels(i, tile_no, threshold, strict_first)
    ELSE GatheredPixels(i, Len(e_tiles), threshold, strict_first)

ValuesAt(pixels) ==
    [b \in 1..Len(e_src.bands) |-> [j \in 1..Len(pixels) |-> e_src.bands[b][pixels[j]]]]

\* the features computed over a pixel sequence
FeatsOver(pixels) ==
    IF pixels = <<>> THEN NoFeats
    ELSE IF e_cfg.return_raw THEN RawFeats(ValuesAt(pixels))
    ELSE StatFeats(ValuesAt(pixels))

\* the record of the same polygon, from the same place, under another threshold
\* (NoFeats: no record)
FeatsUnder(rec, threshold) ==
    FeatsOver(PixelsBehind(RowOf(rec), rec.phase, rec.tile_no, threshold, FALSE))

\* a / b <= c / d for fractions with positive denominators
FracLeq(x, y) == x[1] * y[2] <= y[1] * x[2]

StatRecords == {n \in 1..Len(e_out) : e_out[n].feats.kind = "stats"}

BandNos == 1..Len(e_src.bands)

\* C14 as stated: no per-band mean or min of a record is larger than under a
\* lower threshold.
C14_ThresholdNeverRaises ==
    ExtractRunning =>
        \A n \in StatRecords : \A t \in Thresholds :
            (t < e_cfg.threshold /\ FeatsUnder(e_out[n], t) # NoFeats) =>
                \A b \in BandNos :
                    /\ e_out[n].feats.bands[b].min <= FeatsUnder(e_out[n], t).bands[b].min
                    /\ FracLeq(e_out[n].feats.bands[b].mean,
                               FeatsUnder(e_out[n], t).bands[b].mean)

\* C14 amended: a record is the one computed from the pixels its threshold
\* keeps; under any lower threshold the polygon also has a record, no per-band
\* min of which is larger and no per-band max of which is smaller; for a
\* single-band raster the mean under the lower threshold is not larger either.
\* Records finalized from the boundary buffer obey the same rule.
C14_ThresholdMonotone ==
    ExtractRunning =>
        \A n \in StatRecords :
            /\ e_out[n].feats = FeatsUnder(e_out[n], e_cfg.threshold)
            /\ \A t \in Thresholds :
                  t < e_cfg.threshold =>
                      LET low == FeatsUnder(e_out[n], t)
                      IN  /\ low # NoFeats
                          /\ \A b \in BandNos :
                                /\ low.bands[b].min <= e_out[n].feats.bands[b].min
                                /\ e_out[n].feats.bands[b].max <= low.bands[b].max
                          /\ Len(e_src.bands) = 1 =>
                                FracLeq(low.bands[1].mean, e_out[n].feats.bands[1].mean)

\* the same with the mean of every band of a multi-band raster
C14_MeanOfEveryBand ==
    ExtractRunning =>
        \A n \in StatRecords : \A t \in Thresholds :
            (t < e_cfg.threshold /\ FeatsUnder(e_out[n], t) # NoFeats) =>
                \A b \in BandNos :
                    FracLeq(FeatsUnder(e_out[n], t).bands[b].mean,
                            e_out[n].feats.bands[b].mean)

\* C14 witness: a record finalized from the buffer whose threshold dropped a
\* pixel that a lower threshold keeps, so that its min is strictly larger
C14_Witness ==
    /\ e_pc = "done"
    /\ \E n \in StatRecords : \E t \in Thresholds :
          /\ e_out[n].phase = "tail"
          /\ t < e_cfg.threshold
          /\ FeatsUnder(e_out[n], t).bands[1].min < e_out[n].feats.bands[1].min

\* C15: every record is computed, for all bands alike, over one sequence of
\* pixels: the pixels of the polygon's mask (of its tile, or of all tiles for a
\* record from the buffer) at which no band is nodata and every band is above
\* the threshold.  Hence every raw value and every band's min is above the
\* threshold and is not the nodata value.
C15_SamePixelsAllBands ==
    ExtractRunning =>
        \A n \in 1..Len(e_out) :
            LET rec    == e_out[n]
                pixels == PixelsBehind(RowOf(rec), rec.phase, rec.tile_no,
                                       e_cfg.threshold, FALSE)
            IN  /\ pixels # <<>>
                /\ rec.feats = FeatsOver(pixels)
                /\ \A j \in 1..Len(pixels) : \A b \in BandNos :
                      /\ e_src.bands[b][pixels[j]] > e_cfg.threshold
                      /\ ~(e_src.nodata.has /\ e_src.bands[b][pixels[j]] = e_src.nodata.val)
                /\ \A b \in BandNos :
                      IF rec.feats.kind = "values"
                      THEN /\ Len(rec.feats.bands[b]) = Len(pixels)
                           /\ \A j \in 1..Len(pixels) : rec.feats.bands[b][j] > e_cfg.threshold
                      ELSE rec.feats.bands[b].min > e_cfg.threshold

\* C15 witness: a two-band record from the buffer in which a pixel was dropped
\* although its first band is above the threshold and is not nodata
C15_Witness ==
    /\ e_pc = "done"
    /\ Len(e_src.bands) = 2
    /\ \E n \in 1..Len(e_out) :
          /\ e_out[n].phase = "tail"
          /\ \E k \in ExtractTileNos :
                \E p \in SelectedPixels(e_rows[RowOf(e_out[n])].geometry, e_tiles[k]) :
                    /\ e_src.bands[1][p] > e_cfg.threshold
                    /\ ~(e_src.nodata.has /\ e_src.bands[1][p] = e_src.nodata.val)
                    /\ ~valid_col(e_src, p, e_cfg.threshold)

\* C16: every record is computed over the pixels of the strict centre-inside
\* mask, and over the any-touched mask only where the strict mask is empty; a
\* polygon whose pixel set is empty in a visit contributes nothing, and a
\* polygon with no pixel at all has no record.
C16_StrictMaskFirst ==
    ExtractRunning =>
        /\ \A n \in 1..Len(e_out) :
              e_out[n].feats =
                  FeatsOver(PixelsBehind(RowOf(e_out[n]), e_out[n].phase,
                                         e_out[n].tile_no, e_cfg.threshold, TRUE))
        /\ \A n \in 1..Len(e_out) : e_out[n].feats # NoFeats
        /\ e_pc = "done" =>
              \A i \in RowNos :
                  GatheredPixels(i, Len(e_tiles), e_cfg.threshold, FALSE) = <<>>
                      => FeatsYielded(i) = {}

\* the part of C16 about empty pixel sets
C16_EmptySetSkipped ==
    ExtractRunning =>
        /\ \A n \in 1..Len(e_out) : e_out[n].feats # NoFeats
        /\ e_pc = "done" =>
              \A i \in RowNos :
                  GatheredPixels(i, Len(e_tiles), e_cfg.threshold, FALSE) = <<>>
                      => FeatsYielded(i) = {}

\* ---- the raster file handle of extract_features on a path ----

ExtractTerminal == e_pc \in {"done", "GeneratorExit", "RasterioIOError", "TypeError"}

\* the generator was closed while it streamed tiles
AbandonedInStream == e_pc = "GeneratorExit" /\ e_idx < Len(e_tiles)

TailRecords == {n \in 1..Len(e_out) : e_out[n].phase = "tail"}

C19_Scoped ==
    /\ e_handle = "open" => e_pc = "stream"
    /\ (ExtractTerminal \/ e_pc = "tail") => e_handle = "closed"
    /\ e_pc = "GeneratorExit" =>
          /\ boundary_buffer = <<>>
          /\ Cardinality(TailRecords) <= e_tail
    /\ AbandonedInStream => TailRecords = {}

C19_Step ==
    /\ Len(e_out') >= Len(e_out)
    /\ SubSeq(e_out', 1, Len(e_out)) = e_out
    /\ ExtractTerminal => e_out' = e_out

C19_OutcomesReached ==
    \/ e_pc = "RasterioIOError" /\ e_out # <<>> /\ boundary_buffer # <<>>
    \/ e_pc = "done" /\ TailRecords # {}
    \/ e_pc = "GeneratorExit" /\ TailRecords # {}

\* ---- the table of extract_to_dataframe ----

\* C28: extract_to_dataframe returns a table with exactly one row per record
\* that extract_features yields for the same arguments, in the same order: no
\* record is lost or duplicated, also when pl.from_dicts fails part-way and the
\* fallback reads the same generator.
C28_OneRowPerRecord == k_pc = "returned" => k_ret = e_out

\* what does hold: the rows are the records that were yielded last, none twice
C28_RowsAreLastRecords ==
    k_pc = "returned" =>
        /\ Len(k_ret) <= Len(e_out)
        /\ k_ret = SubSeq(e_out, Len(e_out) - Len(k_ret) + 1, Len(e_out))

-----------------------------------------------------------------------------
(* lidar/generate_model.py: the CHM block kernel.  Pixel values are         *)
(* integers; NaN stands for the float NaN, which compares unequal to        *)
(* everything (itself included) and which every subtraction propagates.     *)

NaN == 1000000
NODATA_VAL == -9999

fsub(a, b) == IF a = NaN \/ b = NaN THEN NaN ELSE a - b
feq(a, b) == a # NaN /\ b # NaN /\ a = b
flt(a, b) == a # NaN /\ b # NaN /\ a < b

\* a single-band tile as the dispatcher hands it to the block function
BandTile(h, w, z, nodata) == [height |-> h, width |-> w, z |-> z, nodata |-> nodata]

\* a kernel that takes the elevation difference as it comes
clamp_none(diff) == diff

\* _compute_raw_chm, lines 258-259: if diff < 0.0: diff = 0.0
clamp(diff) == IF flt(diff, 0) THEN 0 ELSE diff

\* _compute_raw_chm: (chm_arr, valid_mask)
_compute_raw_chm(h, w, dsm_arr, dtm_arr, has_d_nodata, d_nodata, has_t_nodata, t_nodata, out_nodata) ==
    LET is_valid(p) == /\ ~(has_d_nodata /\ feq(dsm_arr[p], d_nodata))
                       /\ ~(has_t_nodata /\ feq(dtm_arr[p], t_nodata))
    IN  [chm_arr    |-> [p \in Pixels(h, w) |->
                            IF is_valid(p) THEN clamp(fsub(dsm_arr[p], dtm_arr[p]))
                            ELSE out_nodata],
         valid_mask |-> [p \in Pixels(h, w) |-> is_valid(p)]]

\* scipy.ndimage boundary mode "reflect": (d c b a | a b c d | d c b a)
RECURSIVE Reflect(_, _)
Reflect(i, n) ==
    IF i < 0 THEN Reflect(-i - 1, n)
    ELSE IF i >= n THEN Reflect(2 * n - 1 - i, n)
    ELSE i

\* the values under a size x size footprint centred on p, with multiplicity
FootprintValues(arr, h, w, p, size) ==
    LET rad == size \div 2
    IN  [k \in 1..(size * size) |->
            arr[<<Reflect(p[1] - rad + ((k - 1) \div size), h),
                  Reflect(p[2] - rad + ((k - 1) % size), w)>>]]

\* How the selection routine of the rank filter treats NaN is not defined by
\* scipy: NaN may sort below every number, above every number, or be returned.
NanOrders == {"first", "last", "poison"}

\* the element of rank size*size \div 2 among the footprint's values
Median(vals, nan_order) ==
    LET n      == Len(vals)
        rank   == n \div 2
        key(v) == IF v # NaN THEN v ELSE IF nan_order = "first" THEN -NaN ELSE NaN
        S      == {vals[i] : i \in 1..n}
        below(v)   == Cardinality({i \in 1..n : key(vals[i]) < key(v)})
        atmost(v)  == Cardinality({i \in 1..n : key(vals[i]) <= key(v)})
    IN  IF nan_order = "poison" /\ NaN \in S THEN NaN
        ELSE CHOOSE v \in S : below(v) <= rank /\ atmost(v) > rank

\* ndimage.median_filter(arr, size=size)
median_filter(arr, h, w, size, nan_order) ==
    [p \in Pixels(h, w) |-> Median(FootprintValues(arr, h, w, p, size), nan_order)]

\* _chm_block(dsm, dtm, filter_size): the CHM tile
_chm_block(dsm, dtm, filter_size, nan_order) ==
    LET h == dsm.height
        w == dsm.width
        has_d_nodata   == dsm.nodata.has
        d_nodata_val   == IF has_d_nodata THEN dsm.nodata.val ELSE 0
        has_t_nodata   == dtm.nodata.has
        t_nodata_val   == IF has_t_nodata THEN dtm.nodata.val ELSE 0
        out_nodata_val == IF has_d_nodata THEN dsm.nodata.val ELSE NODATA_VAL
        raw == _compute_raw_chm(h, w, dsm.z, dtm.z, has_d_nodata, d_nodata_val,
                                has_t_nodata, t_nodata_val, out_nodata_val)
        temp_chm == [p \in Pixels(h, w) |->
                        IF raw.valid_mask[p] THEN raw.chm_arr[p] ELSE 0]
        smoothed_chm == median_filter(temp_chm, h, w, filter_size, nan_order)
        chm_arr == IF filter_size > 0
                   THEN [p \in Pixels(h, w) |->
                            IF raw.valid_mask[p] THEN smoothed_chm[p] ELSE out_nodata_val]
                   ELSE raw.chm_arr
    IN  BandTile(h, w, chm_arr, Nodata(out_nodata_val))

\* the call _chm_block(dsm, dtm, filter_size)
ChmBlock ==
    /\ k_pc = "_chm_block"
    /\ \E nan_order \in NanOrders :
          k_ret' = _chm_block(k_args.dsm, k_args.dtm, k_args.filter_size, nan_order)
    /\ k_pc' = "returned"
    /\ UNCHANGED <<k_args, k_calls>>
    /\ UNCHANGED <<stratVars, dispVars, haloVars, extVars>>

ChmNext == ChmBlock

\* ---- inputs of the CHM kernel ----

\* the sentinels a DSM or DTM carries: none, NODATA_VAL, or NaN
Sentinels == {NoNodata, Nodata(NODATA_VAL), Nodata(NaN)}

\* a flat surface of height `base`, with at most one pixel raised or lowered to
\* `spike` and at most one pixel at the sentinel
Surfaces(h, w, bases, spikes, nodata) ==
    LET px == Pixels(h, w)
        none == <<-1, -1>>
        holes == IF nodata.has THEN px \cup {none} ELSE {none}
    IN  {[p \in px |-> IF p = hole THEN nodata.val
                       ELSE IF p = at THEN spike ELSE base] :
            base \in bases, spike \in spikes, at \in px \cup {none}, hole \in holes}

FilterSizes == {0, 3}

\* the tiles of one call: a DSM and a DTM of the same shape
ChmArgs(h, w, dn, tn) ==
    {[dsm |-> BandTile(h, w, d, dn), dtm |-> BandTile(h, w, t, tn), filter_size |-> fs] :
        d \in Surfaces(h, w, {3}, {1, 7}, dn),
        t \in Surfaces(h, w, {2}, {5}, tn),
        fs \in FilterSizes}

ChmInit ==
    /\ \E h \in 1..MaxH, w \in 1..MaxW, dn \in Sentinels, tn \in Sentinels :
          k_args \in ChmArgs(h, w, dn, tn)
    /\ k_ret = <<>>
    /\ k_pc = "_chm_block"
    /\ k_calls = 0

\* ---- claims about the CHM kernel ----

\* the value is the sentinel of the raster (a NaN sentinel marks NaN pixels)
IsNodata(v, nodata) ==
    nodata.has /\ IF nodata.val = NaN THEN v = NaN ELSE v = nodata.val

\* the DSM or the DTM is nodata at p
InputNodata(p) ==
    \/ IsNodata(k_args.dsm.z[p], k_args.dsm.nodata)
    \/ IsNodata(k_args.dtm.z[p], k_args.dtm.nodata)

\* C12: in the CHM tile the kernel returns, a pixel where the DSM or the DTM is
\* at its nodata sentinel holds the output's nodata value; every other pixel is
\* valid (not the output's nodata value) and >= 0, and without smoothing it is
\* max(0, DSM - DTM).  Hence smoothing neither makes a nodata pixel valid nor a
\* valid pixel nodata.
C12_ChmNodataAndSign ==
    k_pc = "returned" =>
        \A p \in Pixels(k_ret.height, k_ret.width) :
            IF InputNodata(p)
            THEN IsNodata(k_ret.z[p], k_ret.nodata)
            ELSE /\ ~IsNodata(k_ret.z[p], k_ret.nodata)
                 /\ k_ret.z[p] # NaN
                 /\ k_ret.z[p] >= 0
                 /\ k_args.filter_size = 0 =>
                       k_ret.z[p] = Max(0, k_args.dsm.z[p] - k_args.dtm.z[p])

\* the same for inputs whose sentinels are numbers
C12_HoldsWithoutNaN ==
    (k_args.dsm.nodata.val # NaN /\ k_args.dtm.nodata.val # NaN)
        => C12_ChmNodataAndSign

-----------------------------------------------------------------------------
(* lidar/detect_treetop.py: the VWS kernel.  Heights are integers;          *)
(* distances (base_dist_px, height_scale_px_per_m and the radius) are in    *)
(* half pixels, so a radius of 3 is 1.5 pixels.                             *)

RECURSIVE Pow(_, _)
Pow(b, e) == IF e = 0 THEN 1 ELSE b * Pow(b, e - 1)

\* int(num / den) for den > 0: truncation toward zero
Trunc(num, den) == IF num >= 0 THEN num \div den ELSE -((-num) \div den)

\* _detect_peaks_vws, lines 155-170: the flat indices of the candidates
ValidIdxs(grid, threshold_abs) ==
    {i \in 0..(grid.height * grid.width - 1) :
        grid.z[<<i \div grid.width, i % grid.width>>] >= threshold_abs}

\* np.argsort does not fix the order of equal heights
TieOrders == {"low_index_first", "high_index_first"}

Before(grid, tie, i, j) ==
    LET vi == grid.z[<<i \div grid.width, i % grid.width>>]
        vj == grid.z[<<j \div grid.width, j % grid.width>>]
    IN  \/ vi > vj
        \/ vi = vj /\ IF tie = "low_index_first" THEN i < j ELSE i > j

\* candidates visited from the lowest to the highest
sorted_idxs_ascending(grid, threshold_abs, tie) ==
    LET S == ValidIdxs(grid, threshold_abs)
    IN  [k \in 1..Cardinality(S) |->
            CHOOSE i \in S : Cardinality({j \in S : Before(grid, tie, i, j)}) = k - 1]

\* _detect_peaks_vws, lines 172-173: np.argsort(valid_vals)[::-1], the
\* candidates from the highest to the lowest
sorted_idxs(grid, threshold_abs, tie) ==
    LET S == ValidIdxs(grid, threshold_abs)
    IN  [k \in 1..Cardinality(S) |->
            CHOOSE i \in S : Cardinality({j \in S : Before(grid, tie, j, i)}) = k - 1]

\* line 196: base_dist_px + peak_height ** power * height_scale_px_per_m
dynamic_dist_px(peak_height, prm) ==
    prm.base_dist_px + Pow(peak_height, prm.power) * prm.height_scale_px_per_m

\* lines 197-210: the pixels the peak at (r, c) adds to the exclusion mask
Excluded(grid, r, c, dist) ==
    LET r_min == Max(0, Trunc(2 * r - dist, 2))
        r_max == Min(grid.height, Trunc(2 * r + dist + 2, 2))
        c_min == Max(0, Trunc(2 * c - dist, 2))
        c_max == Min(grid.width, Trunc(2 * c + dist + 2, 2))
    IN  {p \in (r_min..(r_max - 1)) \X (c_min..(c_max - 1)) :
            4 * ((p[1] - r) * (p[1] - r) + (p[2] - c) * (p[2] - c)) <= dist * dist}

\* lines 182-210: the loop over the sorted candidates
RECURSIVE Inhibit(_, _, _, _, _)
Inhibit(grid, prm, order, mask, peaks) ==
    IF order = <<>> THEN peaks
    ELSE LET idx == Head(order)
             r   == idx \div grid.width
             c   == idx % grid.width
         IN  IF <<r, c>> \in mask
             THEN Inhibit(grid, prm, Tail(order), mask, peaks)
             ELSE Inhibit(grid, prm, Tail(order),
                          mask \cup Excluded(grid, r, c,
                                             dynamic_dist_px(grid.z[<<r, c>>], prm)),
                          Append(peaks, <<r, c>>))

\* _detect_peaks_vws(chm, base_dist_px, height_scale_px_per_m, threshold_abs,
\* power): the peaks, in the order they were accepted
_detect_peaks_vws(grid, prm, tie) ==
    Inhibit(grid, prm, sorted_idxs(grid, prm.threshold_abs, tie), {}, <<>>)

\* the call _detect_peaks_vws(chm, ...)
DetectPeaksVws ==
    /\ k_pc = "_detect_peaks_vws"
    /\ \E tie \in TieOrders :
          k_ret' = _detect_peaks_vws(k_args.chm, k_args.params, tie)
    /\ k_pc' = "returned_peaks"
    /\ UNCHANGED <<k_args, k_calls>>
    /\ UNCHANGED <<stratVars, dispVars, haloVars, extVars>>

VwsNext == DetectPeaksVws

\* ---- inputs of the VWS kernel ----

\* canopies: a floor of height `base` with up to two pixels at other heights
Canopies(h, w) ==
    LET px == Pixels(h, w)
        none == <<-1, -1>>
    IN  {[height |-> h, width |-> w,
          z |-> [p \in px |-> IF p = a THEN va ELSE IF p = b THEN vb ELSE base]] :
            base \in {0, 1}, a \in px \cup {none}, b \in px \cup {none},
            va \in {1, 3}, vb \in {2, 3}}

VwsParams ==
    [base_dist_px : {0, 1, 3, 4}, height_scale_px_per_m : {-1, 0, 1},
     threshold_abs : {0, 1}, power : {0, 1, 2}]

VwsInit ==
    /\ k_args \in UNION {{[chm |-> g, params |-> prm] :
                              g \in Canopies(h, w), prm \in VwsParams} :
                         h \in 1..MaxH, w \in 1..MaxW}
    /\ k_ret = <<>>
    /\ k_pc = "_detect_peaks_vws"
    /\ k_calls = 0

\* ---- claims about the VWS kernel ----

VwsRadius(p) == dynamic_dist_px(k_args.chm.z[p], k_args.params)

\* q lies outside the exclusion disk of p (distances in half pixels)
OutsideDisk(p, q) ==
    \/ VwsRadius(p) < 0
    \/ 4 * ((p[1] - q[1]) * (p[1] - q[1]) + (p[2] - q[2]) * (p[2] - q[2]))
          > VwsRadius(p) * VwsRadius(p)

\* C13 as stated: whatever the parameters, any two distinct peaks lie outside
\* each other's exclusion disk.
C13_VwsExclusionAnyParams ==
    k_pc = "returned_peaks" =>
        \A i, j \in 1..Len(k_ret) :
            i # j => OutsideDisk(k_ret[i], k_ret[j])

\* C13 amended: every peak lies outside the disk of every peak accepted before
\* it (a peak at least as high); and when height_scale is not negative, so that
\* the radius does not shrink with height, any two distinct peaks lie outside
\* each other's disk.  The peaks are distinct pixels at or above threshold_abs.
C13_VwsExclusion ==
    k_pc = "returned_peaks" =>
        /\ \A i, j \in 1..Len(k_ret) :
              i < j => /\ k_ret[i] # k_ret[j]
                       /\ k_args.chm.z[k_ret[i]] >= k_args.chm.z[k_ret[j]]
                       /\ OutsideDisk(k_ret[i], k_ret[j])
        /\ \A i \in 1..Len(k_ret) : k_args.chm.z[k_ret[i]] >= k_args.params.threshold_abs
        /\ k_args.params.height_scale_px_per_m >= 0 =>
              \A i, j \in 1..Len(k_ret) : i # j => OutsideDisk(k_ret[i], k_ret[j])

\* C13 witness: two peaks of different heights were accepted, the lower one
\* having a smaller disk that a candidate between them was excluded by
C13_Witness ==
    /\ k_pc = "returned_peaks"
    /\ Len(k_ret) >= 2
    /\ k_args.params.height_scale_px_per_m > 0
    /\ k_args.chm.z[k_ret[1]] > k_args.chm.z[k_ret[2]]
    /\ VwsRadius(k_ret[2]) >= 2
    /\ Cardinality(ValidIdxs(k_args.chm, k_args.params.threshold_abs)) > Len(k_ret)

-----------------------------------------------------------------------------
(* The Raster envelope (raster_layer.py) and the band operations of        *)
(* raster_geometry.py: stack_bands, split_bands, crop.  A numpy array is   *)
(* its shape and its values by index; an index is 1-based here, and a      *)
(* band-name table is the dict in insertion order, a sequence of           *)
(* <<name, index>> pairs.  The transform is the pixel origin of the array  *)
(* in the grid it was constructed on.                                      *)

MaxBands == 4         \* most bands of an envelope (stack_bands is not called beyond)
MaxSide == 2          \* longest side of a constructed array, in pixels
MaxCalls == 3         \* most operations applied to a constructed envelope

Indices(shape) ==
    {i \in [1..Len(shape) -> 1..(MaxBands + 1)] :
        \A k \in 1..Len(shape) : i[k] <= shape[k]}

\* the array of a shape whose value at index i is at[i]
ndarray(shape, at) == [shape |-> shape, v |-> [i \in Indices(shape) |-> at[i]]]

ndim(a) == Len(a.shape)

\* data[np.newaxis, :, :]
newaxis(a) ==
    ndarray(<<1>> \o a.shape, [i \in Indices(<<1>> \o a.shape) |-> a.v[Tail(i)]])

\* Raster.validate_inputs
validate_inputs(data) == ndim(data) \in {2, 3}

\* Raster.__init__: a 2-D array gets a leading band axis
promote(data) == IF ndim(data) = 2 THEN newaxis(data) ELSE data

\* Raster(data, transform, crs, nodata, band_names), the inputs being valid
Raster(data, transform, crs, nodata, band_names) ==
    [data |-> promote(data), transform |-> transform, crs |-> crs,
     nodata |-> nodata, band_names |-> band_names]

count(r) == r.data.shape[1]
height(r) == r.data.shape[2]
width(r) == r.data.shape[3]

\* the data setter can be applied to new_data
settable(new_data) == ndim(promote(new_data)) = 3

\* Raster.data = new_data
set_data(r, new_data) == [r EXCEPT !.data = promote(new_data)]

\* d[name] = idx on an insertion-ordered dict
DictSet(d, name, idx) ==
    IF \E k \in 1..Len(d) : d[k][1] = name
    THEN [k \in 1..Len(d) |-> IF d[k][1] = name THEN <<name, idx>> ELSE d[k]]
    ELSE Append(d, <<name, idx>>)

\* the bands of rasters[1..k] together
BandsUpTo(rasters, k) == SumSeq([j \in 1..k |-> count(rasters[j])])

\* stack_bands counts the reference raster once before the loop and once in it
total_bands(rasters) == count(rasters[1]) + BandsUpTo(rasters, Len(rasters))

\* stack_bands raises RasterValidationError
dimension_mismatch(rasters) ==
    \E k \in 1..Len(rasters) :
        \/ width(rasters[k]) # width(rasters[1])
        \/ height(rasters[k]) # height(rasters[1])

RECURSIVE stacked_names(_, _, _, _)
\* new_band_names after the names n.. of item k.. are entered
stacked_names(rasters, k, n, names) ==
    IF k > Len(rasters) THEN names
    ELSE IF n > Len(rasters[k].band_names)
         THEN stacked_names(rasters, k + 1, 1, names)
         ELSE stacked_names(rasters, k, n + 1,
                            DictSet(names, rasters[k].band_names[n][1],
                                    BandsUpTo(rasters, k - 1) + 1))

\* stack_bands(rasters), the dimensions matching
stack_bands(rasters) ==
    LET ref == rasters[1]
        item(b) == CHOOSE k \in 1..Len(rasters) :
                      BandsUpTo(rasters, k - 1) < b /\ b <= BandsUpTo(rasters, k)
        shape == <<total_bands(rasters), height(ref), width(ref)>>
        at == [i \in Indices(shape) |->
                  IF i[1] <= BandsUpTo(rasters, Len(rasters))
                  THEN rasters[item(i[1])].data.v[
                           <<i[1] - BandsUpTo(rasters, item(i[1]) - 1), i[2], i[3]>>]
                  ELSE 0]
    IN  Raster(ndarray(shape, at),
               ref.transform, ref.crs, ref.nodata,
               stacked_names(rasters, 1, 1, <<>>))

\* split_bands(raster)
split_bands(raster) ==
    [b \in 1..count(raster) |->
        LET shape == <<1, height(raster), width(raster)>>
            at == [i \in Indices(shape) |-> raster.data.v[<<b, i[2], i[3]>>]]
            named == {n \in 1..Len(raster.band_names) : raster.band_names[n][2] = b}
            first == CHOOSE n \in named : \A o \in named : n <= o
        IN  Raster(ndarray(shape, at),
                   raster.transform, raster.crs, raster.nodata,
                   IF named = {} THEN <<>>
                   ELSE <<<<raster.band_names[first][1], 1>>>>)]

\* crop(raster, bounds), the bounds lying on pixel edges: window is the
\* <<col_off, row_off, width, height>> that from_bounds gives for them
crop(raster, window) ==
    LET row_start == Max(0, window[2])
        row_end == Min(height(raster), window[2] + window[4])
        col_start == Max(0, window[1])
        col_end == Min(width(raster), window[1] + window[3])
        shape == <<count(raster), Max(0, row_end - row_start),
                   Max(0, col_end - col_start)>>
        at == [i \in Indices(shape) |->
                  raster.data.v[<<i[1], row_start + i[2], col_start + i[3]>>]]
    IN  Raster(ndarray(shape, at),
               <<raster.transform[1] + window[1], raster.transform[2] + window[2]>>,
               raster.crs, raster.nodata, raster.band_names)

\* ---- the operations, on a working list of envelopes ----

\* Raster(data, ...): the construction
RasterInit ==
    /\ k_pc = "Raster"
    /\ IF validate_inputs(k_args.data)
       THEN /\ k_ret' = <<Raster(k_args.data, <<0, 0>>, "crs", k_args.nodata,
                                 k_args.band_names)>>
            /\ k_pc' = "constructed"
       ELSE /\ k_ret' = k_ret
            /\ k_pc' = "raised"
    /\ UNCHANGED <<k_args, k_calls>>
    /\ UNCHANGED <<stratVars, dispVars, haloVars, extVars>>

EnvelopeReady ==
    /\ k_pc \in {"constructed", "data", "split_bands", "stack_bands", "crop"}
    /\ k_calls < MaxCalls

\* raster.data = new_data
SetData(n, new_data) ==
    /\ EnvelopeReady
    /\ k_calls' = k_calls + 1
    /\ k_args' = [raster |-> k_ret[n], new_data |-> new_data]
    /\ IF settable(new_data)
       THEN /\ k_ret' = [k_ret EXCEPT ![n] = set_data(k_ret[n], new_data)]
            /\ k_pc' = "data"
       ELSE /\ k_ret' = k_ret
            /\ k_pc' = "raised"
    /\ UNCHANGED <<stratVars, dispVars, haloVars, extVars>>

\* split_bands(raster)
SplitBands(n) ==
    /\ EnvelopeReady
    /\ k_calls' = k_calls + 1
    /\ k_args' = [raster |-> k_ret[n]]
    /\ k_ret' = split_bands(k_ret[n])
    /\ k_pc' = "split_bands"
    /\ UNCHANGED <<stratVars, dispVars, haloVars, extVars>>

\* stack_bands(rasters), with the whole working list
StackBands ==
    /\ EnvelopeReady
    /\ k_calls' = k_calls + 1
    /\ total_bands(k_ret) <= MaxBands
    /\ k_args' = [rasters |-> k_ret]
    /\ IF dimension_mismatch(k_ret)
       THEN /\ k_ret' = k_ret
            /\ k_pc' = "raised"
       ELSE /\ k_ret' = <<stack_bands(k_ret)>>
            /\ k_pc' = "stack_bands"
    /\ UNCHANGED <<stratVars, dispVars, haloVars, extVars>>

\* crop(raster, bounds)
Crop(n, window) ==
    /\ EnvelopeReady
    /\ k_calls' = k_calls + 1
    /\ k_args' = [raster |-> k_ret[n], window |-> window]
    /\ k_ret' = [k_ret EXCEPT ![n] = crop(k_ret[n], window)]
    /\ k_pc' = "crop"
    /\ UNCHANGED <<stratVars, dispVars, haloVars, extVars>>

\* ---- inputs of the envelope operations ----

\* the number of a pixel within its band, row by row
PixelNo(shape, i) ==
    IF Len(shape) = 1 THEN i[1]
    ELSE (i[Len(shape) - 1] - 1) * MaxSide + i[Len(shape)]

\* arrays of one to three dimensions; band b holds tone[b] * 10 + its pixel number
Arrays ==
    UNION {UNION {{ndarray(shape,
                           [i \in Indices(shape) |->
                               tone[IF Len(shape) = 3 THEN i[1] ELSE 1] * 10
                                   + PixelNo(shape, i)]) :
                      tone \in [1..2 -> {1, 2}]} :
                  shape \in [1..d -> 1..MaxSide]} : d \in 1..3}

\* new pixel arrays a caller assigns: one value throughout
NewArrays ==
    UNION {{ndarray(shape, [i \in Indices(shape) |-> 5]) :
               shape \in [1..d -> 1..MaxSide]} : d \in 1..3}

BandLabels == {"red", "nir"}

\* band-name tables a caller may pass for `bands` bands: distinct names,
\* distinct indices in 1..bands
BandNameTables(bands) ==
    {<<>>} \cup {<<<<l, b>>>> : l \in BandLabels, b \in 1..bands}
           \cup {t \in {<<<<l1, b1>>, <<l2, b2>>>> :
                            l1 \in BandLabels, l2 \in BandLabels,
                            b1 \in 1..bands, b2 \in 1..bands} :
                    t[1][1] # t[2][1] /\ t[1][2] # t[2][2]}

\* windows of crop: 2x2 from one pixel before the origin to one after, and 1x1
CropWindows ==
    {<<c, r, 2, 2>> : c \in -1..1, r \in -1..1} \cup {<<0, 0, 1, 1>>, <<1, 1, 1, 1>>}

EnvelopeInit ==
    /\ \E data \in Arrays, nodata \in {NoNodata} :
         \E names \in BandNameTables(IF ndim(data) = 3 THEN data.shape[1] ELSE 1) :
            k_args = [data |-> data, nodata |-> nodata, band_names |-> names]
    /\ k_ret = <<>>
    /\ k_pc = "Raster"
    /\ k_calls = 0

EnvelopeNext ==
    \/ RasterInit
    \/ \E n \in 1..Len(k_ret), new_data \in NewArrays : SetData(n, new_data)
    \/ \E n \in 1..Len(k_ret) : SplitBands(n)
    \/ StackBands
    \/ \E n \in 1..Len(k_ret), window \in CropWindows : Crop(n, window)

\* ---- claims about the envelope operations ----

\* C17: for an envelope r of one band or more, stack_bands(split_bands(r)) has
\* the pixel array of r: as many bands, in the same order, the same values.
C17_StackSplitRoundTrip ==
    [][(k_pc = "split_bands" /\ k_pc' = "stack_bands")
          => k_ret'[1].data = k_args.raster.data]_vars

\* what the round trip does return: the bands of r in order, then one band of
\* zeros more
C17_LeadingBandsIdentical ==
    [][(k_pc = "split_bands" /\ k_pc' = "stack_bands")
          => LET r == k_args.raster
                 s == k_ret'[1]
             IN  /\ s.data.shape = <<count(r) + 1, height(r), width(r)>>
                 /\ \A i \in Indices(s.data.shape) :
                       s.data.v[i] = IF i[1] <= count(r) THEN r.data.v[i] ELSE 0]_vars

\* the band-name table of r is well formed: distinct indices within 1..bands
WellNamed(r) ==
    /\ \A i, j \in 1..Len(r.band_names) :
          i # j => r.band_names[i][2] # r.band_names[j][2]
    /\ \A i \in 1..Len(r.band_names) : r.band_names[i][2] \in 1..count(r)

\* C18: every envelope produced by construction, data assignment, split_bands,
\* stack_bands and crop, in any sequence, has a 3-D pixel array and a
\* band-name table whose indices are pairwise distinct and within 1..bands.
C18_EnvelopeInvariant ==
    \A n \in 1..Len(k_ret) : ndim(k_ret[n].data) = 3 /\ WellNamed(k_ret[n])

\* the half of C18 about the array: it has three dimensions
C18_ThreeDimensional ==
    \A n \in 1..Len(k_ret) : ndim(k_ret[n].data) = 3

\* the name tables stay well formed as long as the data is not assigned and
\* stack_bands is not called
C18_WellNamedWithoutStackOrAssignment ==
    [][(k_pc' \in {"constructed", "split_bands", "crop"}
          /\ \A n \in 1..Len(k_ret) : WellNamed(k_ret[n]))
          => \A n \in 1..Len(k_ret') : WellNamed(k_ret'[n])]_vars

\* stack_bands alone, on well-named envelopes
C18_StackKeepsNames ==
    [][(k_pc' = "stack_bands" /\ \A n \in 1..Len(k_ret) : WellNamed(k_ret[n]))
          => WellNamed(k_ret'[1])]_vars

\* the data setter alone, on a well-named envelope
C18_AssignmentKeepsNames ==
    [][(k_pc' = "data" /\ \A n \in 1..Len(k_ret) : WellNamed(k_ret[n]))
          => \A n \in 1..Len(k_ret') : WellNamed(k_ret'[n])]_vars

\* the envelopes the last crop returned that hold a pixel at least
Cropped ==
    {n \in 1..Len(k_ret) : /\ k_ret[n] = crop(k_args.raster, k_args.window)
                           /\ height(k_ret[n]) > 0 /\ width(k_ret[n]) > 0}

\* the world position of the first pixel of the input that the slice keeps
FirstRetained ==
    <<k_args.raster.transform[1] + Max(0, k_args.window[1]),
      k_args.raster.transform[2] + Max(0, k_args.window[2])>>

\* C26: the transform of the envelope crop returns maps its pixel (0, 0) to the
\* world position of the first input pixel that was retained, also when the
\* bounds reach beyond the top or left edge and the window is clamped.
C26_CropTransformFollowsSlice ==
    k_pc = "crop" => \A n \in Cropped : k_ret[n].transform = FirstRetained

\* what does hold: the same for bounds that start inside the raster
C26_InsideTopLeft ==
    (k_pc = "crop" /\ k_args.window[1] >= 0 /\ k_args.window[2] >= 0)
        => \A n \in Cropped : k_ret[n].transform = FirstRetained

-----------------------------------------------------------------------------
(* lidar/delineate_crown.py: the ringed region-growing kernel.  Heights are *)
(* whole metres; the half metre of the vertical gain and the two inclusion  *)
(* ratios are kept exact by comparing cross-multiplied integers.  k_args    *)
(* holds the arguments of _expand_canopy, k_ret its arrays and locals.      *)

GrowSide == 2         \* rows and columns of the CHM handed to the kernel
MaxGrowHeight == 4    \* tallest CHM pixel, in metres
MaxApexes == 2        \* most treetops on the CHM
MaxSpread == 2        \* radius_px of line 277, in pixels

\* a ratio such as apex_inclusion = 0.45, as <<numerator, denominator>>
APEX_INCLUSION == <<9, 20>>
CORE_INCLUSION == <<11, 20>>

\* _calculate_expansion_rings, lines 104-113: the offsets <<dy, dx>> within
\* max_spread of the centre, the centre left out
ring_offsets(max_spread) ==
    {o \in (-max_spread..max_spread) \X (-max_spread..max_spread) :
        /\ o[1] * o[1] + o[2] * o[2] > 0
        /\ o[1] * o[1] + o[2] * o[2] <= max_spread * max_spread}

radial_dist(o) == o[1] * o[1] + o[2] * o[2]

\* lines 104-119: the position of an offset in the flattened meshgrid (its
\* first output runs along the columns, so dx is the slow index) is what
\* orders the offsets of one ring
SortKey(o, max_spread) ==
    (radial_dist(o) * (2 * max_spread + 1) + (o[2] + max_spread)) * (2 * max_spread + 1)
        + (o[1] + max_spread)

\* lines 114-122: <<step, expansion_rings>>, step the offsets sorted by
\* distance and expansion_rings the 0-based start of each ring, with the
\* number of offsets appended
_calculate_expansion_rings(max_spread) ==
    LET offs == ring_offsets(max_spread)
        pos(o) == Cardinality({q \in offs : SortKey(q, max_spread) < SortKey(o, max_spread)})
        step == [n \in 1..Cardinality(offs) |-> CHOOSE o \in offs : pos(o) = n - 1]
        starts == {n \in 0..(Cardinality(offs) - 1) :
                      n = 0 \/ radial_dist(step[n]) # radial_dist(step[n + 1])}
        rings == [j \in 1..Cardinality(starts) |->
                     CHOOSE n \in starts : Cardinality({q \in starts : q < n}) = j - 1]
    IN  [step |-> step, expansion_rings |-> Append(rings, Cardinality(offs))]

\* np.pad(a, pad, mode='constant', constant_values=0), lines 281-282
np_pad(a, h, w, pad) ==
    [p \in Pixels(h + 2 * pad, w + 2 * pad) |->
        IF /\ pad <= p[1] /\ p[1] < pad + h
           /\ pad <= p[2] /\ p[2] < pad + w
        THEN a[<<p[1] - pad, p[2] - pad>>] ELSE 0]

\* lines 271-273: the label of a pixel is the number of the last treetop on it
apex_labels(apex_p, h, w) ==
    [p \in Pixels(h, w) |->
        LET on == {i \in 1..Len(apex_p) : apex_p[i] = p}
        IN  IF on = {} THEN 0 ELSE SetMax(on)]

\* lines 277-299: the arguments _run_region_growing gives to the kernel
kernel_args(chm_prep, h, w, apex_p, min_height) ==
    LET pad == MaxSpread + 1
        rings == _calculate_expansion_rings(MaxSpread)
    IN  [surface_grid |-> np_pad(chm_prep, h, w, pad),
         ownership_grid |-> np_pad(apex_labels(apex_p, h, w), h, w, pad),
         apex_p |-> [i \in 1..Len(apex_p) |-> <<apex_p[i][1] + pad, apex_p[i][2] + pad>>],
         step |-> rings.step,
         expansion_rings |-> rings.expansion_rings,
         apex_inclusion |-> APEX_INCLUSION,
         core_inclusion |-> CORE_INCLUSION,
         min_height |-> min_height]

\* ---- the tests of one candidate pixel ----

\* lines 218-226: the canopy adhesion criteria
adhesion(h_test, h_apex, cumulative_height, pixel_count, a) ==
    /\ ~(h_test <= a.min_height)
    /\ ~(2 * h_test > 2 * h_apex + 1)
    /\ ~(h_test * a.apex_inclusion[2] <= h_apex * a.apex_inclusion[1])
    /\ ~(h_test * pixel_count * a.core_inclusion[2]
            <= cumulative_height * a.core_inclusion[1])

\* a neighbour test that any owned or free neighbour satisfies
touches_any(grid, p, tree_id) == TRUE

\* lines 230-233: one of the four neighbours belongs to the tree
touches(grid, p, tree_id) ==
    \/ grid[<<p[1] - 1, p[2]>>] = tree_id
    \/ grid[<<p[1] + 1, p[2]>>] = tree_id
    \/ grid[<<p[1], p[2] - 1>>] = tree_id
    \/ grid[<<p[1], p[2] + 1>>] = tree_id

\* line 212: the pixel has no owner yet
is_free(grid, p) == grid[p] = 0

\* a rule that keeps every tree in the active list
stays_active_always(expanded_ring) == TRUE

\* lines 240-242: a tree stays in the active list if it grew in the ring
stays_active(expanded_ring) == expanded_ring

\* ---- the kernel, statement by statement ----

NumTrees == Len(k_args.apex_p)
NumRings == Len(k_args.expansion_rings) - 1

\* the tree the loop of line 187 is at
ActiveIdx == k_ret.active_trees[k_ret.i + 1]
TreeId == ActiveIdx + 1

\* the pixel the loop of line 205 is at (lines 207-208)
TestPixelAt ==
    <<k_args.apex_p[ActiveIdx + 1][1] + k_args.step[k_ret.k + 1][1],
      k_args.apex_p[ActiveIdx + 1][2] + k_args.step[k_ret.k + 1][2]>>

\* lines 158-176: the metrics of every tree start from its apex pixel
ExpandStart ==
    /\ k_pc = "_expand_canopy"
    /\ k_ret' = [ownership_grid |-> k_args.ownership_grid,
                 canopy_metrics |-> [t \in 1..NumTrees |->
                                        <<k_args.surface_grid[k_args.apex_p[t]], 1>>],
                 apex_heights |-> [t \in 1..NumTrees |->
                                      k_args.surface_grid[k_args.apex_p[t]]],
                 active_trees |-> [n \in 1..NumTrees |-> n - 1],
                 trees_growing |-> NumTrees,
                 ring_idx |-> 0, i |-> 0, k |-> 0, next_active_count |-> 0,
                 cumulative_height |-> 0, pixel_count |-> 0,
                 expanded_ring |-> FALSE,
                 grown |-> [t \in 1..NumTrees |-> {}]]
    /\ k_pc' = "ring"
    /\ UNCHANGED <<k_args, k_calls>>
    /\ UNCHANGED <<stratVars, dispVars, haloVars, extVars>>

\* lines 178-185: the next ring, if a tree is still growing
RingStart ==
    /\ k_pc = "ring"
    /\ k_ret.ring_idx < NumRings
    /\ k_ret.trees_growing # 0
    /\ k_ret' = [k_ret EXCEPT !.i = 0, !.next_active_count = 0]
    /\ k_pc' = "tree"
    /\ UNCHANGED <<k_args, k_calls>>
    /\ UNCHANGED <<stratVars, dispVars, haloVars, extVars>>

\* lines 187-203: the next active tree; its totals are read into locals
TreeStart ==
    /\ k_pc = "tree"
    /\ k_ret.i < k_ret.trees_growing
    /\ k_ret' = [k_ret EXCEPT
                    !.cumulative_height = k_ret.canopy_metrics[TreeId][1],
                    !.pixel_count = k_ret.canopy_metrics[TreeId][2],
                    !.expanded_ring = FALSE,
                    !.k = k_args.expansion_rings[k_ret.ring_idx + 1]]
    /\ k_pc' = "pixel"
    /\ UNCHANGED <<k_args, k_calls>>
    /\ UNCHANGED <<stratVars, dispVars, haloVars, extVars>>

\* lines 205-238: one offset of the ring
TestPixel ==
    /\ k_pc = "pixel"
    /\ k_ret.k < k_args.expansion_rings[k_ret.ring_idx + 2]
    /\ LET p == TestPixelAt
           h_test == k_args.surface_grid[p]
       IN  IF /\ is_free(k_ret.ownership_grid, p)
              /\ adhesion(h_test, k_ret.apex_heights[TreeId], k_ret.cumulative_height,
                          k_ret.pixel_count, k_args)
              /\ touches(k_ret.ownership_grid, p, TreeId)
           THEN k_ret' = [k_ret EXCEPT
                             !.ownership_grid[p] = TreeId,
                             !.canopy_metrics[TreeId] = <<@[1] + h_test, @[2] + 1>>,
                             !.expanded_ring = TRUE,
                             !.grown[TreeId] = @ \cup {k_ret.ring_idx},
                             !.k = @ + 1]
           ELSE k_ret' = [k_ret EXCEPT !.k = @ + 1]
    /\ k_calls' = k_calls
    /\ UNCHANGED <<k_args, k_pc>>
    /\ UNCHANGED <<stratVars, dispVars, haloVars, extVars>>

\* lines 240-242: the ring of this tree is through
TreeEnd ==
    /\ k_pc = "pixel"
    /\ k_ret.k = k_args.expansion_rings[k_ret.ring_idx + 2]
    /\ k_ret' = IF stays_active(k_ret.expanded_ring)
                THEN [k_ret EXCEPT
                         !.active_trees[k_ret.next_active_count + 1] = ActiveIdx,
                         !.next_active_count = @ + 1,
                         !.i = @ + 1]
                ELSE [k_ret EXCEPT !.i = @ + 1]
    /\ k_pc' = "tree"
    /\ UNCHANGED <<k_args, k_calls>>
    /\ UNCHANGED <<stratVars, dispVars, haloVars, extVars>>

\* line 244: the trees that grew are the active ones of the next ring
RingEnd ==
    /\ k_pc = "tree"
    /\ k_ret.i = k_ret.trees_growing
    /\ k_ret' = [k_ret EXCEPT !.trees_growing = k_ret.next_active_count,
                              !.ring_idx = @ + 1]
    /\ k_pc' = "ring"
    /\ UNCHANGED <<k_args, k_calls>>
    /\ UNCHANGED <<stratVars, dispVars, haloVars, extVars>>

\* lines 178-181: the rings are used up, or no tree is growing
ExpandReturn ==
    /\ k_pc = "ring"
    /\ k_ret.ring_idx = NumRings \/ k_ret.trees_growing = 0
    /\ k_pc' = "grown"
    /\ UNCHANGED <<k_args, k_ret, k_calls>>
    /\ UNCHANGED <<stratVars, dispVars, haloVars, extVars>>

GrowNext ==
    \/ ExpandStart \/ RingStart \/ TreeStart \/ TestPixel \/ TreeEnd \/ RingEnd
    \/ ExpandReturn

\* ---- inputs of the kernel ----

\* the CHMs: a square one, and a row one pixel longer where a pixel lies two
\* steps from the apex
GrowShapes == {<<GrowSide, GrowSide>>, <<1, GrowSide + 1>>}

GrowChms(shape) == [Pixels(shape[1], shape[2]) -> 1..MaxGrowHeight]

\* the treetops of the CHM, as _run_region_growing gets them: one or more
\* pixels, two of which may coincide
GrowApexes(shape) ==
    UNION {[1..n -> Pixels(shape[1], shape[2])] : n \in 1..MaxApexes}

GrowInit ==
    /\ \E shape \in GrowShapes, min_height \in {0, 2} :
          \E chm_prep \in GrowChms(shape), apex_p \in GrowApexes(shape) :
             k_args = kernel_args(chm_prep, shape[1], shape[2], apex_p, min_height)
    /\ k_ret = <<>>
    /\ k_pc = "_expand_canopy"
    /\ k_calls = 0

\* ---- claims about the kernel ----

Growing == k_pc \in {"ring", "tree", "pixel", "grown"}

\* the pixels a tree owns
Crown(grid, t) == {p \in DOMAIN grid : grid[p] = t}

\* the pixels the kernel has given to a tree
Accepted(t) == Crown(k_ret.ownership_grid, t) \ Crown(k_args.ownership_grid, t)

Adjacent4(p, q) ==
    \/ p[1] = q[1] /\ (p[2] = q[2] + 1 \/ p[2] = q[2] - 1)
    \/ p[2] = q[2] /\ (p[1] = q[1] + 1 \/ p[1] = q[1] - 1)

\* the pixels of crown that n steps between 4-neighbours reach from S
RECURSIVE Reached(_, _, _)
Reached(S, crown, n) ==
    IF n = 0 THEN S
    ELSE Reached(S \cup {p \in crown : \E q \in S : Adjacent4(p, q)}, crown, n - 1)

C21_Crowns ==
    Growing =>
        \A t \in 1..NumTrees :
            LET crown == Crown(k_ret.ownership_grid, t)
                z == k_args.surface_grid[k_args.apex_p[t]]
            IN  /\ crown # {} =>
                      /\ k_args.apex_p[t] \in crown
                      /\ Reached({k_args.apex_p[t]}, crown, Cardinality(crown)) = crown
                /\ \A p \in Accepted(t) :
                      /\ k_args.surface_grid[p] > k_args.min_height
                      /\ 2 * k_args.surface_grid[p] <= 2 * z + 1
                      /\ k_args.surface_grid[p] * k_args.apex_inclusion[2]
                            > z * k_args.apex_inclusion[1]

C21_Step ==
    (Growing /\ Growing') =>
        \A p \in DOMAIN k_ret.ownership_grid :
            /\ k_ret.ownership_grid[p] # 0 =>
                    k_ret'.ownership_grid[p] = k_ret.ownership_grid[p]
            /\ (k_ret.ownership_grid[p] = 0 /\ k_ret'.ownership_grid[p] # 0) =>
                    \E q \in DOMAIN k_ret.ownership_grid :
                        /\ Adjacent4(p, q)
                        /\ k_ret.ownership_grid[q] = k_ret'.ownership_grid[p]

\* C21: at every step of _expand_canopy a pixel has one owner at most and an
\* owned pixel is never reassigned; a pixel is accepted for an apex only if one of
\* its 4-neighbours already belongs to that apex, so every crown is a 4-connected
\* region around its apex pixel; every accepted pixel is higher than min_height,
\* not higher than apex_height + 0.5 and higher than apex_height * apex_inclusion.
C21_CrownsGrowFromApex == [](C21_Crowns) /\ [][C21_Step]_vars

\* C21 witness: the kernel is through; of two trees one has taken three pixels,
\* a diagonal neighbour of its apex among them, and the other kept its apex only
C21_Witness ==
    /\ k_pc = "grown"
    /\ NumTrees = 2
    /\ \E t \in 1..2 :
          /\ Cardinality(Accepted(t)) = 2
          /\ \E p \in Accepted(t) : /\ p[1] # k_args.apex_p[t][1]
                                     /\ p[2] # k_args.apex_p[t][2]
          /\ Crown(k_ret.ownership_grid, 3 - t) = {k_args.apex_p[3 - t]}

\* the trees of the active list
ActiveSet(r) == {r.active_trees[n] : n \in 1..r.trees_growing}

C22_Rings ==
    Growing =>
        /\ k_pc = "grown" => (k_ret.trees_growing = 0 \/ k_ret.ring_idx = NumRings)
        /\ \A t \in 1..NumTrees : \A ring \in k_ret.grown[t] :
               \A before \in 0..(ring - 1) : before \in k_ret.grown[t]

C22_Step ==
    (Growing /\ Growing') =>
        /\ k_ret'.trees_growing <= k_ret.trees_growing
        /\ ActiveSet(k_ret') \subseteq ActiveSet(k_ret)

\* C22: the kernel always terminates, with no active apex or with all rings
\* processed; the set of active apexes never grows from one ring to the next, and
\* an apex that accepted no pixel in a ring accepts none in any later ring.
C22_TerminatesAndShrinks ==
    /\ <>(k_pc = "grown")
    /\ [](C22_Rings)
    /\ [][C22_Step]_vars

\* C22 witness: the kernel ended with rings left, because the last active tree
\* did not grow; it had grown in the first ring, and a free pixel next to
\* its crown passes the height tests
C22_Witness ==
    /\ k_pc = "grown"
    /\ k_ret.ring_idx < NumRings
    /\ k_ret.trees_growing = 0
    /\ \E t \in 1..NumTrees :
          /\ k_ret.grown[t] = {0}
          /\ \E p \in DOMAIN k_ret.ownership_grid :
                /\ k_ret.ownership_grid[p] = 0
                /\ \E q \in Crown(k_ret.ownership_grid, t) : Adjacent4(p, q)
                /\ adhesion(k_args.surface_grid[p], k_ret.apex_heights[t],
                            k_ret.canopy_metrics[t][1], k_ret.canopy_metrics[t][2], k_args)

\* C23: the crown-threshold test of a candidate pixel uses the running totals of
\* the apex over every pixel accepted so far, those of the same ring included: the
\* test decides as it would with the totals that were updated at each acceptance.
C23_ThresholdUsesRunningTotals ==
    (k_pc = "pixel" /\ k_ret.k < k_args.expansion_rings[k_ret.ring_idx + 2]) =>
        LET h_test == k_args.surface_grid[TestPixelAt]
        IN  adhesion(h_test, k_ret.apex_heights[TreeId], k_ret.cumulative_height,
                     k_ret.pixel_count, k_args)
            = adhesion(h_test, k_ret.apex_heights[TreeId], k_ret.canopy_metrics[TreeId][1],
                       k_ret.canopy_metrics[TreeId][2], k_args)

\* what does hold: the test uses the totals the tree had when its turn in the
\* ring began, which are those of the pixels accepted in earlier rings
C23_TotalsOfEarlierRings ==
    k_pc = "pixel" =>
        LET earlier == {p \in Accepted(TreeId) :
                           radial_dist(<<p[1] - k_args.apex_p[TreeId][1],
                                         p[2] - k_args.apex_p[TreeId][2]>>)
                             < radial_dist(k_args.step[k_args.expansion_rings[k_ret.ring_idx + 1] + 1])}
        IN  k_ret.pixel_count = 1 + Cardinality(earlier)

-----------------------------------------------------------------------------
(* Specifications.                                                         *)

KernelIdle ==
    /\ k_args = <<>>
    /\ k_ret = <<>>
    /\ k_pc = "idle"
    /\ k_calls = 0

EngineIdle == StratIdle /\ mem_available = 0 /\ DispIdle

StrategyInit == StratInit /\ DispIdle /\ HaloIdle /\ ExtractIdle /\ KernelIdle

DispatchInit == DispInit /\ HaloIdle /\ ExtractIdle /\ KernelIdle

TreetopsInit == DetectInit /\ EngineIdle /\ ExtractIdle /\ KernelIdle

CrownsInit == DelineateInit /\ EngineIdle /\ ExtractIdle /\ KernelIdle

ExtractorInit == ExtractInit /\ EngineIdle /\ HaloIdle /\ KernelIdle

IntersectionInit == IntersectInit /\ EngineIdle /\ HaloIdle /\ KernelIdle

SpecStrategy == StrategyInit /\ [][StratNext]_vars

SpecDispatch == DispatchInit /\ [][DispNext]_vars

SpecTreetops == TreetopsInit /\ [][TreetopsNext]_vars

SpecCrowns == CrownsInit /\ [][CrownsNext]_vars

SpecExtract == ExtractorInit /\ [][ExtractNext]_vars

SpecIntersect == IntersectionInit /\ [][IntersectNext]_vars

FilteringInit == FilterInit /\ EngineIdle /\ HaloIdle /\ KernelIdle

SpecFilter == FilteringInit /\ [][IntersectNext]_vars

ChmKernelInit == ChmInit /\ EngineIdle /\ HaloIdle /\ ExtractIdle

SpecChm == ChmKernelInit /\ [][ChmNext]_vars

VwsKernelInit == VwsInit /\ EngineIdle /\ HaloIdle /\ ExtractIdle

SpecVws == VwsKernelInit /\ [][VwsNext]_vars

EnvelopeOpsInit == EnvelopeInit /\ EngineIdle /\ HaloIdle /\ ExtractIdle

SpecEnvelope == EnvelopeOpsInit /\ [][EnvelopeNext]_vars

SpecConsumed == IntersectionInit /\ [][ConsumedNext]_vars

DataFrameInit ==
    /\ ExtractInit /\ EngineIdle /\ HaloIdle
    /\ k_args = <<>>
    /\ k_ret = <<>>
    /\ k_pc = "from_dicts"
    /\ k_calls = 0

SpecDataFrame == DataFrameInit /\ [][DataFrameNext]_vars

RegionGrowingInit == GrowInit /\ EngineIdle /\ HaloIdle /\ ExtractIdle

SpecGrow == RegionGrowingInit /\ [][GrowNext]_vars

\* the kernel is one thread of control: the statement it is at is executed
SpecGrowFair == SpecGrow /\ WF_vars(GrowNext)

Spec == SpecDispatch

====
